---- MODULE Spec2Model ----
(***************************************************************************)
(* A model of the ray tracer of patrickzbhe/ray-tracing-series-rust:       *)
(*   - the concurrent renderer render_scene (src/src/world.rs) with the    *)
(*     Screen buffer (src/src/screen.rs),                                  *)
(*   - the path-trace integrator ray_color (world.rs and main.rs),         *)
(*   - the hittable hierarchy, Aabb and BvhNode (hit.rs, aabb.rs, bvh.rs). *)
(*   - functions that are called on their own: Aabb::surrounding_box, the  *)
(*     materials (hit.rs) and Vec3Iter (vec3.rs).                          *)
(* Four specifications share the variables: SpecRender, SpecTrace, SpecHit *)
(* and SpecCalls; each leaves the variables of the other parts untouched.  *)
(***************************************************************************)
EXTENDS Integers, Sequences, FiniteSets, TLC

VARIABLES
    \* ---- render_scene
    cfg,          \* the arguments handed to Config::new
    rpc,          \* position of the main (aggregating) thread
    image_height, \* world.rs:907, as the usize handed to Screen::new
    screen,       \* the Screen: [width, height, pixels]
    chunk_size,   \* world.rs:913
    wk,           \* the spawned worker threads, indexed 0..spawned-1
    chan,         \* the mpsc channel's queue of (row, column, color)
    senders,      \* live Sender handles (the original and its clones)
    sentLog,      \* history: every message ever sent, in send order
    ppm,          \* the pixel lines write_to_ppm printed, or <<>>
    \* ---- ray_color
    tr,           \* the integrator's loop state and the path it walks
    \* ---- hittables
    hs,           \* the scene, the ray and the results of the hit calls
    \* ---- functions called on their own
    pf            \* the last call: its name, its arguments and its result

renderVars == <<cfg, rpc, image_height, screen, chunk_size, wk, chan,
                senders, sentLog, ppm>>

vars == <<renderVars, tr, hs, pf>>

(***************************************************************************)
(* Bounds of the model.                                                    *)
(***************************************************************************)
MaxWidth == 2
MaxThreads == 3
MaxColor == 1
MaxMsgs == 4
MaxDepth == 3
MaxEmit == 1
MaxAtten == 2
MaxBackground == 1

(***************************************************************************)
(* Program constants.                                                      *)
(***************************************************************************)
I32Max == 2147483647

Black == 0

\* Aspect ratios as exact binary fractions num/den (den > 0), so that the
\* f64 division image_width / aspect_ratio is exact up to truncation.
AspectRatios ==
    { [num |-> -1, den |-> 1], [num |-> 0, den |-> 1], [num |-> 1, den |-> 4],
      [num |-> 1, den |-> 1], [num |-> 2, den |-> 1] }

Configs ==
    [ aspect_ratio : AspectRatios,
      image_width : 0..MaxWidth,
      samples_per_pixel : 0..1,
      max_depth : 0..1,
      threads : 0..MaxThreads ]

PixelColors == 1..MaxColor

(***************************************************************************)
(* Config::new: the assertions it makes (aspect_ratio is not among them).  *)
(***************************************************************************)
ConfigNewOk(c) ==
    /\ c.threads > 0
    /\ c.image_width > 0
    /\ c.samples_per_pixel > 0
    /\ c.max_depth > 0
    /\ c.threads > 0

\* (image_width as f64 / aspect_ratio) as i32: the quotient truncated toward
\* zero; x / 0.0 is +infinity for x > 0, which the cast saturates to i32::MAX.
ImageHeightI32(c) ==
    LET n == c.image_width * c.aspect_ratio.den
        d == c.aspect_ratio.num
    IN  IF d = 0 THEN (IF n > 0 THEN I32Max ELSE 0)
        ELSE IF d > 0 THEN n \div d
        ELSE -(n \div (-d))

\* `x as usize` of an i32: a negative x wraps to 2^64 + x.  The model keeps
\* the value as [wrapped, val]: val itself, or 2^64 + val when wrapped.
AsUsize(x) == [wrapped |-> x < 0, val |-> x]

\* Screen::new's assertion height > 0 && width > 0 on usize arguments.
ScreenNewAssert(width, height) ==
    /\ (height.wrapped \/ height.val > 0)
    /\ width > 0

\* vec![..; height * width]: with a wrapped height the product overflows
\* usize (a panic in a debug build) or wraps to a length whose byte size
\* exceeds isize::MAX (a capacity-overflow panic in a release build).
ScreenNewVecPanics(width, height) == height.wrapped

\* An image of at most MaxMsgs pixels (height * width <= MaxMsgs, without
\* forming the product): the images whose pixels the model enumerates.
Enumerated(width, height) == width > 0 /\ height <= MaxMsgs \div width

ScreenNew(width, height) ==
    [width |-> width, height |-> height.val, pixels |-> <<>>]

NoScreen == [width |-> 0, height |-> 0, pixels |-> <<>>]

\* The Vec<Color> of a Screen, read at an index: pixels holds the elements
\* written since construction, every other element is Color::new(0, 0, 0).
PixelAt(s, idx) == IF idx \in DOMAIN s.pixels THEN s.pixels[idx] ELSE Black

\* Screen::update's assertion i * width + j < height * width, evaluated
\* without forming height * width.
UpdateInRange(s, i, j) == s.width > 0 /\ (i * s.width + j) \div s.width < s.height

\* A faulty variant: the row and the column are exchanged in the index.
ScreenUpdateTransposed(s, i, j, color) ==
    [s EXCEPT !.pixels =
        [k \in (DOMAIN s.pixels) \cup {j * s.width + i} |->
            IF k = j * s.width + i THEN color ELSE s.pixels[k]]]

ScreenUpdate(s, i, j, color) ==
    [s EXCEPT !.pixels =
        [k \in (DOMAIN s.pixels) \cup {i * s.width + j} |->
            IF k = i * s.width + j THEN color ELSE s.pixels[k]]]

Min(a, b) == IF a < b THEN a ELSE b

\* The row range of worker t (world.rs:916-917).
RangeStart(t, chunk) == t * chunk
RangeEnd(t, chunk, height) == Min(t * chunk + chunk, height)

(***************************************************************************)
(* render_scene: the main thread.                                          *)
(***************************************************************************)
Idle == [unused |-> TRUE]

InitRender ==
    /\ cfg \in Configs
    /\ rpc = "config"
    /\ image_height = AsUsize(0)
    /\ screen = NoScreen
    /\ chunk_size = 0
    /\ wk = <<>>
    /\ chan = <<>>
    /\ senders = 0
    /\ sentLog = <<>>
    /\ ppm = <<>>
    /\ tr = Idle
    /\ hs = Idle
    /\ pf = Idle

\* Config::new (world.rs:27-41): a failed assertion panics.
ConfigNew ==
    /\ rpc = "config"
    /\ rpc' = IF ConfigNewOk(cfg) THEN "render" ELSE "panicked"
    /\ UNCHANGED <<cfg, image_height, screen, chunk_size, wk, chan, senders,
                   sentLog, ppm, tr, hs, pf>>

\* render_scene up to the spawn loop (world.rs:902-913): the channel, the
\* derived image height, Screen::new and the chunk size.  Screen::new
\* panics on its assertion or inside vec!; otherwise the allocation either
\* fails for lack of memory (the process aborts) or succeeds.
RenderSetup ==
    /\ rpc = "render"
    /\ LET h == AsUsize(ImageHeightI32(cfg))
           w == cfg.image_width
       IN  /\ image_height' = h
           /\ IF ~ScreenNewAssert(w, h) \/ ScreenNewVecPanics(w, h)
              THEN /\ rpc' = "panicked"
                   /\ UNCHANGED <<screen, chunk_size, senders>>
              ELSE \/ /\ rpc' = "aborted"
                      /\ UNCHANGED <<screen, chunk_size, senders>>
                   \/ /\ rpc' = "spawn"
                      /\ screen' = ScreenNew(w, h)
                      /\ chunk_size' = h.val \div cfg.threads
                      /\ senders' = 1
    /\ UNCHANGED <<cfg, wk, chan, sentLog, ppm, tr, hs, pf>>

\* One iteration of the spawn loop (world.rs:915-942): the range of worker
\* t, a clone of the sender, and the thread.
SpawnWorker ==
    /\ rpc = "spawn"
    /\ Len(wk) < cfg.threads
    /\ LET t == Len(wk)
       IN  wk' = Append(wk, [st |-> "running",
                             start |-> RangeStart(t, chunk_size),
                             end |-> RangeEnd(t, chunk_size, image_height.val),
                             j |-> RangeStart(t, chunk_size),
                             i |-> 0])
    /\ senders' = senders + 1
    /\ UNCHANGED <<cfg, rpc, image_height, screen, chunk_size, chan, sentLog, ppm, tr, hs, pf>>

\* A faulty variant: the original sender is kept alive across the receive loop.
DropSenderForgotten ==
    /\ rpc = "spawn"
    /\ Len(wk) = cfg.threads
    /\ rpc' = "recv"
    /\ UNCHANGED <<cfg, image_height, screen, chunk_size, wk, chan, senders,
                   sentLog, ppm, tr, hs, pf>>

\* drop(sender) after the loop (world.rs:943).
DropSender ==
    /\ rpc = "spawn"
    /\ Len(wk) = cfg.threads
    /\ senders' = senders - 1
    /\ rpc' = "recv"
    /\ UNCHANGED <<cfg, image_height, screen, chunk_size, wk, chan, sentLog, ppm, tr, hs, pf>>

\* receiver.recv() returning Ok (world.rs:948-951): the oldest message is
\* taken and written with Screen::update, whose assertion may panic.
RecvOk ==
    /\ rpc = "recv"
    /\ chan # <<>>
    /\ LET m == Head(chan)
       IN  IF UpdateInRange(screen, m.row, m.col)
           THEN /\ screen' = ScreenUpdate(screen, m.row, m.col, m.color)
                /\ rpc' = "recv"
           ELSE /\ rpc' = "panicked"
                /\ UNCHANGED screen
    /\ chan' = Tail(chan)
    /\ UNCHANGED <<cfg, image_height, chunk_size, wk, senders, sentLog, ppm,
                   tr, hs, pf>>

\* A faulty variant: the loop breaks as soon as the queue is empty (try_recv).
RecvErrOnEmptyQueue ==
    /\ rpc = "recv"
    /\ chan = <<>>
    /\ rpc' = "encode"
    /\ UNCHANGED <<cfg, image_height, screen, chunk_size, wk, chan, senders,
                   sentLog, ppm, tr, hs, pf>>

\* receiver.recv() returning Err (world.rs:952-954): the queue is empty and
\* no sender is left; the loop breaks.
RecvErr ==
    /\ rpc = "recv"
    /\ chan = <<>>
    /\ senders = 0
    /\ rpc' = "encode"
    /\ UNCHANGED <<cfg, image_height, screen, chunk_size, wk, chan, senders,
                   sentLog, ppm, tr, hs, pf>>

\* Screen::write_to_ppm (screen.rs:40-48): rows from the last to the first,
\* columns in order.
PpmLines(s) ==
    [n \in 1..(s.height * s.width) |->
        LET row == (s.height - 1) - ((n - 1) \div s.width)
            col == (n - 1) % s.width
        IN  PixelAt(s, row * s.width + col)]

WriteToPpm ==
    /\ rpc = "encode"
    /\ Enumerated(screen.width, screen.height)
    /\ ppm' = PpmLines(screen)
    /\ rpc' = "done"
    /\ UNCHANGED <<cfg, image_height, screen, chunk_size, wk, chan, senders,
                   sentLog, tr, hs, pf>>

(***************************************************************************)
(* render_scene: the worker threads (the closure of world.rs:922-941).     *)
(***************************************************************************)
\* A faulty variant: the worker writes its pixel into the Screen itself.
WorkerSendWritesScreen(t) ==
    /\ t \in 1..Len(wk)
    /\ wk[t].st = "running"
    /\ wk[t].j < wk[t].end
    /\ Enumerated(screen.width, screen.height)
    /\ \E color \in PixelColors :
         /\ screen' = ScreenUpdate(screen, wk[t].j, wk[t].i, color)
         /\ sentLog' = Append(sentLog, [row |-> wk[t].j, col |-> wk[t].i, color |-> color])
    /\ wk' = [wk EXCEPT ![t] =
                IF wk[t].i + 1 < cfg.image_width
                THEN [@ EXCEPT !.i = @ + 1]
                ELSE [@ EXCEPT !.i = 0, !.j = @ + 1]]
    /\ UNCHANGED <<cfg, rpc, image_height, chunk_size, senders, chan, ppm, tr, hs, pf>>

\* A faulty variant: the inner loop over the columns is left out.
WorkerSendStaysInColumn(t) ==
    /\ t \in 1..Len(wk)
    /\ wk[t].st = "running"
    /\ wk[t].j < wk[t].end
    /\ Enumerated(screen.width, screen.height)
    /\ \E color \in PixelColors :
         LET m == [row |-> wk[t].j, col |-> wk[t].i, color |-> color]
         IN  /\ chan' = Append(chan, m)
             /\ sentLog' = Append(sentLog, m)
    /\ wk' = [wk EXCEPT ![t] =
                [@ EXCEPT !.j = @ + 1]]
    /\ UNCHANGED <<cfg, rpc, image_height, screen, chunk_size, senders, ppm, tr, hs, pf>>

\* One pixel: the color summed over the samples is sent with its row and
\* column, and the loops advance.
WorkerSend(t) ==
    /\ t \in 1..Len(wk)
    /\ wk[t].st = "running"
    /\ wk[t].j < wk[t].end
    /\ Enumerated(screen.width, screen.height)
    /\ \E color \in PixelColors :
         LET m == [row |-> wk[t].j, col |-> wk[t].i, color |-> color]
         IN  /\ chan' = Append(chan, m)
             /\ sentLog' = Append(sentLog, m)
    /\ wk' = [wk EXCEPT ![t] =
                IF wk[t].i + 1 < cfg.image_width
                THEN [@ EXCEPT !.i = @ + 1]
                ELSE [@ EXCEPT !.i = 0, !.j = @ + 1]]
    /\ UNCHANGED <<cfg, rpc, image_height, screen, chunk_size, senders, ppm, tr, hs, pf>>

\* The closure returns after its last row: its sender clone is dropped.
WorkerFinish(t) ==
    /\ t \in 1..Len(wk)
    /\ wk[t].st = "running"
    /\ wk[t].j >= wk[t].end
    /\ wk' = [wk EXCEPT ![t].st = "done"]
    /\ senders' = senders - 1
    /\ UNCHANGED <<cfg, rpc, image_height, screen, chunk_size, chan, sentLog, ppm, tr, hs, pf>>

\* The closure panics before its last pixel (a panic raised while tracing):
\* unwinding drops its sender clone.
WorkerPanic(t) ==
    /\ t \in 1..Len(wk)
    /\ wk[t].st = "running"
    /\ wk[t].j < wk[t].end
    /\ wk' = [wk EXCEPT ![t].st = "panicked"]
    /\ senders' = senders - 1
    /\ UNCHANGED <<cfg, rpc, image_height, screen, chunk_size, chan, sentLog, ppm, tr, hs, pf>>

MainStep == ConfigNew \/ RenderSetup \/ SpawnWorker \/ DropSender \/ RecvOk \/ RecvErr \/ WriteToPpm

NextRender ==
    \/ MainStep
    \/ \E t \in 1..MaxThreads : WorkerSend(t)
    \/ \E t \in 1..MaxThreads : WorkerFinish(t)
    \/ \E t \in 1..MaxThreads : WorkerPanic(t)

SpecRender == InitRender /\ [][NextRender]_vars

\* The operating system schedules every thread that can take a step: the
\* main thread and each worker's loop.  A panic is never forced.
FairRender ==
    /\ SpecRender
    /\ WF_vars(MainStep)
    /\ \A t \in 1..MaxThreads : WF_vars(WorkerSend(t) \/ WorkerFinish(t))

(***************************************************************************)
(* Claims about render_scene.                                              *)
(***************************************************************************)
Spawned == rpc \in {"recv", "encode", "done"}

RowsOf(t) == { r \in 0..(screen.height - 1) : wk[t].start <= r /\ r < wk[t].end }

\* C1: once the spawn loop has run, the row ranges of the workers are
\* contiguous, pairwise disjoint and cover every row 0..image_height-1
\* exactly once (the last range taking the remainder).
C1_RangesPartitionRows ==
    (Spawned /\ Enumerated(screen.width, screen.height)) =>
        /\ \A r \in 0..(screen.height - 1) :
              Cardinality({ t \in 1..Len(wk) : r \in RowsOf(t) }) = 1
        /\ \A t \in 1..(Len(wk) - 1) : wk[t].end = wk[t + 1].start

\* C2: the Screen changes only when it is constructed by the main thread
\* or when the main thread, in its receive loop, takes the oldest message
\* of the channel and writes exactly that message's pixel; a step of a
\* worker never changes it.
C2_OnlyAggregatorWrites ==
    [][ /\ (screen' # screen) =>
            \/ rpc = "render"
            \/ /\ rpc = "recv"
               /\ chan # <<>>
               /\ chan' = Tail(chan)
               /\ wk' = wk
               /\ screen' = [screen EXCEPT !.pixels =
                     [k \in DOMAIN screen'.pixels |->
                        IF k = Head(chan).row * screen.width + Head(chan).col
                        THEN Head(chan).color ELSE screen.pixels[k]]]
               /\ DOMAIN screen'.pixels = (DOMAIN screen.pixels) \cup
                     {Head(chan).row * screen.width + Head(chan).col}
        /\ (wk' # wk) => (screen' = screen) ]_vars

C2_Witness ==
    /\ rpc = "recv"
    /\ DOMAIN screen.pixels # {}
    /\ \E t \in 1..Len(wk) : wk[t].st = "running" /\ wk[t].j > wk[t].start

AllDone == Len(wk) = cfg.threads /\ \A t \in 1..Len(wk) : wk[t].st = "done"

\* C3: when the receive loop runs and every worker has finished its range,
\* the loop eventually ends (recv fails once the queue is drained and no
\* sender is left), and it ends by the break, not by a panic.
C3_RecvLoopTerminates == (rpc = "recv" /\ AllDone) ~> (rpc = "encode")

C3_Witness ==
    /\ rpc = "encode"
    /\ AllDone
    /\ Len(sentLog) > 1
    /\ senders = 0 /\ chan = <<>>

SomePanicked == \E t \in 1..Len(wk) : wk[t].st = "panicked"

AllStopped == Len(wk) = cfg.threads /\ \A t \in 1..Len(wk) : wk[t].st # "running"

Sent(row, col) == \E n \in 1..Len(sentLog) : sentLog[n].row = row /\ sentLog[n].col = col

\* The color the printed image must show at (row, col): the color of the
\* message sent for it, or the initial color when none was sent.
Expected(row, col) ==
    IF Sent(row, col)
    THEN (CHOOSE m \in { sentLog[n] : n \in 1..Len(sentLog) } :
              m.row = row /\ m.col = col).color
    ELSE Black

Printed(row, col) == ppm[((screen.height - 1) - row) * screen.width + col + 1]

\* C4: when a worker has panicked before the end of its range, the main
\* thread does not fail: its receive loop ends once every other worker has
\* stopped, and the image it prints shows every pixel that was sent with
\* the color sent and every pixel that was never sent as (0, 0, 0).
C4_EarlyStopTruncates ==
    /\ [](SomePanicked => rpc \in {"spawn", "recv", "encode", "done"})
    /\ []((SomePanicked /\ rpc = "done") =>
            \A row \in 0..(screen.height - 1), col \in 0..(screen.width - 1) :
                Printed(row, col) = Expected(row, col))
    /\ ((SomePanicked /\ AllStopped /\ rpc = "recv") ~> (rpc = "encode"))

C4_Witness ==
    /\ rpc = "done"
    /\ \E t \in 1..Len(wk) :
          /\ wk[t].st = "panicked"
          /\ wk[t].j > wk[t].start
          /\ ~Sent(wk[t].j, wk[t].i)
          /\ Printed(wk[t].j, wk[t].i) = Black
          /\ Printed(wk[t].start, 0) # Black

ValidConfig(c) ==
    /\ c.aspect_ratio.num > 0
    /\ c.image_width > 0
    /\ c.samples_per_pixel > 0
    /\ c.max_depth > 0
    /\ c.threads > 0
    /\ ImageHeightI32(c) > 0

\* C5: a configuration with a non-positive aspect ratio, width, sample
\* count, depth, thread count or derived height never gets past the setup:
\* no worker is spawned and no message is sent.
C5_InvalidConfigRejected ==
    ~ValidConfig(cfg) =>
        /\ rpc \in {"config", "render", "panicked", "aborted"}
        /\ wk = <<>>
        /\ sentLog = <<>>

\* The positions in sentLog of the messages for the rows of worker t.
SentBy(t) == { n \in 1..Len(sentLog) : sentLog[n].row \in RowsOf(t) }

\* The place of a message in the row-major order of the range of worker t.
RowMajor(t, m) == (m.row - wk[t].start) * cfg.image_width + m.col

\* The messages of worker t are the first ones of its range in row-major
\* order, each pixel once; a worker that finished sent its whole range.
SentRowMajor(t) ==
    /\ \A n \in SentBy(t) :
         /\ sentLog[n].col < cfg.image_width
         /\ RowMajor(t, sentLog[n]) = Cardinality({ k \in SentBy(t) : k < n })
    /\ wk[t].st = "done" =>
         Cardinality(SentBy(t)) = (wk[t].end - wk[t].start) * cfg.image_width

\* C28: while no worker has failed, each worker has sent the pixels of its
\* row range in row-major order, one message per pixel (all of them once it
\* has finished), every message belongs to exactly one worker, no (row, col)
\* pair was sent twice, and the number of cells of the image buffer that were
\* written equals the number of messages received: no cell was written twice.
C28_OneMessagePerPixel ==
    ~SomePanicked =>
        /\ \A t \in 1..Len(wk) : SentRowMajor(t)
        /\ \A n \in 1..Len(sentLog) :
             Cardinality({ t \in 1..Len(wk) : n \in SentBy(t) }) = 1
        /\ \A n, k \in 1..Len(sentLog) :
             (sentLog[n].row = sentLog[k].row /\ sentLog[n].col = sentLog[k].col)
                 => n = k
        /\ Cardinality(DOMAIN screen.pixels) = Len(sentLog) - Len(chan)

C28_Witness ==
    /\ rpc = "done"
    /\ ~SomePanicked
    /\ Len(wk) >= 2
    /\ \A t \in 1..Len(wk) : wk[t].st = "done" /\ Cardinality(SentBy(t)) >= 2
    /\ Cardinality(DOMAIN screen.pixels) = Len(sentLog)

\* Message n was taken from the queue and written by screen.update, and no
\* later message for the same cell has replaced it.
Applied(n) ==
    /\ UpdateInRange(screen, sentLog[n].row, sentLog[n].col)
    /\ sentLog[n].row * screen.width + sentLog[n].col \in DOMAIN screen.pixels
    /\ (\A k \in (n + 1)..Len(sentLog) :
            sentLog[k].row # sentLog[n].row \/ sentLog[k].col # sentLog[n].col)
         => PixelAt(screen, sentLog[n].row * screen.width + sentLog[n].col)
                = sentLog[n].color

Encoding == rpc \in {"encode", "done"}

\* C29: the image is encoded only after the receive loop has ended, and from
\* the end of the loop on every sender is dropped (no worker is running),
\* the queue is empty and every message ever sent has been applied by
\* screen.update.
C29_EncodeAfterAllApplied ==
    /\ ppm # <<>> => rpc = "done"
    /\ Encoding =>
        /\ senders = 0
        /\ AllStopped
        /\ chan = <<>>
        /\ \A n \in 1..Len(sentLog) : Applied(n)

C29_Witness ==
    /\ rpc = "done"
    /\ ppm # <<>>
    /\ Len(wk) >= 2
    /\ Len(sentLog) >= 3
    /\ \A n \in 1..Len(sentLog) : Applied(n)

(***************************************************************************)
(* ray_color (world.rs:44-85 and its copy main.rs:20-61).                  *)
(* Colors are modelled by one channel with natural-number values; the      *)
(* scene answers each world.hit with a miss or with a hit whose material    *)
(* emits `emitted` and scatters with `attenuation` or absorbs.             *)
(***************************************************************************)
Copies == {"world.rs", "main.rs"}

Emissions == 0..MaxEmit
Attenuations == 0..MaxAtten
Backgrounds == 0..MaxBackground

\* History: what the last iteration of the loop did, with the product and
\* the output it started from.
Iteration(kind, emitted, attenuation, t) ==
    [kind |-> kind, emitted |-> emitted, attenuation |-> attenuation,
     product |-> t.product, output |-> t.output]

NoIteration == Iteration("none", 0, 0, [product |-> 1, output |-> 0])

InitTrace ==
    /\ \E copy \in Copies, depth \in 0..MaxDepth, background \in Backgrounds :
         tr = [copy |-> copy, pc |-> "loop", depth0 |-> depth, depth |-> depth,
               background |-> background, product |-> 1, output |-> 0,
               hits |-> 0, scattered |-> 0, exhausted |-> FALSE, result |-> 0,
               last |-> NoIteration]
    /\ cfg = [unused |-> TRUE]
    /\ rpc = "none"
    /\ image_height = AsUsize(0)
    /\ screen = NoScreen
    /\ chunk_size = 0
    /\ wk = <<>>
    /\ chan = <<>>
    /\ senders = 0
    /\ sentLog = <<>>
    /\ ppm = <<>>
    /\ hs = Idle
    /\ pf = Idle

\* What the function returns when `depth < 0` after the decrement:
\* world.rs:57-58 breaks to `output`, main.rs:33-34 returns Vec3::new(0,0,0).
ExhaustedResult(t) == IF t.copy = "world.rs" THEN t.output ELSE 0

\* A faulty variant: the scene is intersected before the bounce budget is looked at.
DepthExhaustedAfterHit ==
    /\ tr.pc = "loop"
    /\ tr.depth - 1 < 0
    /\ tr' = [tr EXCEPT !.depth = @ - 1, !.hits = @ + 1, !.pc = "returned",
                        !.exhausted = TRUE, !.result = ExhaustedResult(tr),
                        !.last = Iteration("exhausted", 0, 0, tr)]
    /\ UNCHANGED <<renderVars, hs, pf>>

\* depth -= 1; if depth < 0 { .. }: the loop is left without a hit call.
DepthExhausted ==
    /\ tr.pc = "loop"
    /\ tr.depth - 1 < 0
    /\ tr' = [tr EXCEPT !.depth = @ - 1, !.pc = "returned", !.exhausted = TRUE,
                        !.result = ExhaustedResult(tr),
                        !.last = Iteration("exhausted", 0, 0, tr)]
    /\ UNCHANGED <<renderVars, hs, pf>>

\* world.hit returned None: output += product * background; break.
TraceMiss ==
    /\ tr.pc = "loop"
    /\ tr.depth - 1 >= 0
    /\ LET out == tr.output + tr.product * tr.background
       IN  tr' = [tr EXCEPT !.depth = @ - 1, !.hits = @ + 1, !.output = out,
                           !.pc = "returned", !.result = out,
                           !.last = Iteration("miss", 0, 0, tr)]
    /\ UNCHANGED <<renderVars, hs, pf>>

\* A faulty variant: the product is attenuated before the emitted light is added.
TraceScatterAttenuatesFirst ==
    /\ tr.pc = "loop"
    /\ tr.depth - 1 >= 0
    /\ \E emitted \in Emissions, attenuation \in Attenuations :
         tr' = [tr EXCEPT !.depth = @ - 1, !.hits = @ + 1, !.scattered = @ + 1,
                          !.output = @ + emitted * (tr.product * attenuation),
                          !.product = @ * attenuation,
                          !.last = Iteration("scatter", emitted, attenuation, tr)]
    /\ UNCHANGED <<renderVars, hs, pf>>

\* world.hit returned a record and scatter returned Some: output +=
\* emitted * product; product *= attenuation; the loop goes on.
TraceScatter ==
    /\ tr.pc = "loop"
    /\ tr.depth - 1 >= 0
    /\ \E emitted \in Emissions, attenuation \in Attenuations :
         tr' = [tr EXCEPT !.depth = @ - 1, !.hits = @ + 1, !.scattered = @ + 1,
                          !.output = @ + emitted * tr.product,
                          !.product = @ * attenuation,
                          !.last = Iteration("scatter", emitted, attenuation, tr)]
    /\ UNCHANGED <<renderVars, hs, pf>>

\* A faulty variant: a failed scatter adds the background as a miss does.
TraceAbsorbAddsBackground ==
    /\ tr.pc = "loop"
    /\ tr.depth - 1 >= 0
    /\ \E emitted \in Emissions :
         LET out == tr.output + emitted * tr.product + tr.product * tr.background
         IN  tr' = [tr EXCEPT !.depth = @ - 1, !.hits = @ + 1, !.output = out,
                             !.pc = "returned", !.result = out,
                             !.last = Iteration("absorb", emitted, 0, tr)]
    /\ UNCHANGED <<renderVars, hs, pf>>

\* world.hit returned a record and scatter returned None: output +=
\* emitted * product; break.
TraceAbsorb ==
    /\ tr.pc = "loop"
    /\ tr.depth - 1 >= 0
    /\ \E emitted \in Emissions :
         LET out == tr.output + emitted * tr.product
         IN  tr' = [tr EXCEPT !.depth = @ - 1, !.hits = @ + 1, !.output = out,
                             !.pc = "returned", !.result = out,
                             !.last = Iteration("absorb", emitted, 0, tr)]
    /\ UNCHANGED <<renderVars, hs, pf>>

NextTrace == DepthExhausted \/ TraceMiss \/ TraceScatter \/ TraceAbsorb

SpecTrace == InitTrace /\ [][NextTrace]_vars

\* ray_color is a synchronous call that never yields: an enabled iteration
\* is eventually executed.
FairTrace == SpecTrace /\ WF_vars(NextTrace)

C7_AtMostDepthHits ==
    /\ [](tr.hits <= tr.depth0)
    /\ []((tr.pc = "returned" /\ tr.depth0 = 0) => (tr.hits = 0 /\ tr.result = 0))
    /\ <>(tr.pc = "returned")

C7_Witness ==
    \/ tr.pc = "returned" /\ tr.depth0 = 0 /\ tr.background > 0
    \/ tr.pc = "returned" /\ tr.depth0 = MaxDepth /\ tr.hits = MaxDepth /\ tr.exhausted

\* C16: on every hit, emitted * product is added to the output with the
\* product as it was before this bounce, whether scatter succeeds or fails;
\* the product is multiplied by the attenuation after that, and only when
\* scatter succeeds.
C16_EmittedBeforeAttenuation ==
    /\ tr.last.kind \in {"scatter", "absorb"} =>
           tr.output = tr.last.output + tr.last.emitted * tr.last.product
    /\ tr.last.kind = "scatter" => tr.product = tr.last.product * tr.last.attenuation
    /\ tr.last.kind \in {"absorb", "miss", "exhausted"} => tr.product = tr.last.product

\* A second bounce that emits light through a product the first bounce has
\* attenuated, and attenuates it again.
C16_Witness ==
    /\ tr.last.kind = "scatter"
    /\ tr.last.product = 2
    /\ tr.last.emitted = 1
    /\ tr.last.attenuation = 2
    /\ tr.output = tr.last.output + 2
    /\ tr.product = 4

\* C17: product * background is added to the output exactly when the ray
\* misses the scene, and the trace ends with that iteration, so that it is
\* added at most once; a failed scatter ends the trace with the emitted
\* term only.
C17_BackgroundOnMissOnly ==
    /\ [](tr.last.kind = "miss" =>
            /\ tr.output = tr.last.output + tr.last.product * tr.background
            /\ tr.pc = "returned"
            /\ tr.result = tr.output)
    /\ [](tr.last.kind = "absorb" =>
            /\ tr.output = tr.last.output + tr.last.emitted * tr.last.product
            /\ tr.pc = "returned"
            /\ tr.result = tr.output)
    /\ [](tr.last.kind = "scatter" =>
            tr.output = tr.last.output + tr.last.emitted * tr.last.product)
    /\ [][tr.pc # "returned"]_vars

\* A miss after two bounces adds an attenuated background, and a dark
\* surface that does not scatter ends a trace within a lit background.
C17_Witness ==
    \/ /\ tr.last.kind = "miss"
       /\ tr.scattered = 2
       /\ tr.background = 1
       /\ tr.last.product = 4
       /\ tr.output = tr.last.output + 4
    \/ /\ tr.last.kind = "absorb"
       /\ tr.background = 1
       /\ tr.last.product = 2
       /\ tr.last.emitted = 0
       /\ tr.output = tr.last.output

(***************************************************************************)
(* f64 arithmetic of the geometry.  Lengths are whole multiples of 0.0001  *)
(* (the padding of a rectangle's box, hit.rs:467), so that every finite    *)
(* value the model computes is an integer; PosInf and -PosInf stand for    *)
(* the infinities and NaN for a NaN.  A comparison with a NaN is false, as *)
(* in IEEE 754.  Zeros are taken as +0.0.                                  *)
(***************************************************************************)
PosInf == 1000000
NaN == 2000000

IsInf(a) == a = PosInf \/ a = -PosInf

FLt(a, b) == a # NaN /\ b # NaN /\ a < b
FLe(a, b) == a # NaN /\ b # NaN /\ a <= b
FGt(a, b) == FLt(b, a)
FGe(a, b) == FLe(b, a)

FNeg(a) == IF a = NaN THEN NaN ELSE -a

FAdd(a, b) ==
    IF a = NaN \/ b = NaN THEN NaN
    ELSE IF IsInf(a) /\ IsInf(b) THEN (IF a = b THEN a ELSE NaN)
    ELSE IF IsInf(a) THEN a
    ELSE IF IsInf(b) THEN b
    ELSE a + b

FSub(a, b) == FAdd(a, FNeg(b))

Sign(a) == IF a > 0 THEN 1 ELSE IF a < 0 THEN -1 ELSE 0

FMul(a, b) ==
    IF a = NaN \/ b = NaN THEN NaN
    ELSE IF IsInf(a) \/ IsInf(b)
         THEN (IF a = 0 \/ b = 0 THEN NaN ELSE Sign(a) * Sign(b) * PosInf)
    ELSE a * b

\* A finite quotient is exact for every division the model performs.
FDiv(a, b) ==
    IF a = NaN \/ b = NaN THEN NaN
    ELSE IF IsInf(a) THEN (IF IsInf(b) THEN NaN
                           ELSE IF b < 0 THEN -a ELSE a)
    ELSE IF IsInf(b) THEN 0
    ELSE IF b = 0 THEN (IF a = 0 THEN NaN ELSE Sign(a) * PosInf)
    ELSE IF b = 1 THEN a
    ELSE IF b = -1 THEN -a
    ELSE CHOOSE q \in -(a * Sign(a))..(a * Sign(a)) : q * b = a

\* f64::min and f64::max return the other argument when one is a NaN.
FMin(a, b) == IF a = NaN THEN b ELSE IF b = NaN THEN a ELSE IF a < b THEN a ELSE b
FMax(a, b) == IF a = NaN THEN b ELSE IF b = NaN THEN a ELSE IF a > b THEN a ELSE b

\* f64::sqrt; the finite arguments the model meets are perfect squares.
FSqrt(a) ==
    IF a = NaN THEN NaN
    ELSE IF a < 0 THEN NaN
    ELSE IF a = PosInf THEN PosInf
    ELSE CHOOSE s \in 0..a : s * s = a

(***************************************************************************)
(* Vec3 (vec3.rs) and Ray (ray.rs).                                        *)
(***************************************************************************)
Vec3(x, y, z) == <<x, y, z>>

VAdd(a, b) == <<FAdd(a[1], b[1]), FAdd(a[2], b[2]), FAdd(a[3], b[3])>>
VSub(a, b) == <<FSub(a[1], b[1]), FSub(a[2], b[2]), FSub(a[3], b[3])>>
VNeg(a) == <<FNeg(a[1]), FNeg(a[2]), FNeg(a[3])>>
VScale(a, k) == <<FMul(a[1], k), FMul(a[2], k), FMul(a[3], k)>>
VDivide(a, k) == <<FDiv(a[1], k), FDiv(a[2], k), FDiv(a[3], k)>>
VDot(a, b) == FAdd(FAdd(FMul(a[1], b[1]), FMul(a[2], b[2])), FMul(a[3], b[3]))
VLengthSquared(a) == VDot(a, a)
VLength(a) == FSqrt(VLengthSquared(a))

Ray(origin, direction, time) == [origin |-> origin, direction |-> direction, time |-> time]

RayAt(r, t) == VAdd(r.origin, VScale(r.direction, t))

None == [some |-> FALSE]
Some(x) == [some |-> TRUE, val |-> x]

(***************************************************************************)
(* Aabb (aabb.rs).                                                         *)
(***************************************************************************)
Aabb(minimum, maximum) == [minimum |-> minimum, maximum |-> maximum]

\* One pass of the loop of Aabb::hit over the axes n..3, with the interval
\* narrowed so far.
RECURSIVE AabbHitFrom(_, _, _, _, _)
AabbHitFrom(box, r, n, t_min, t_max) ==
    IF n > 3 THEN TRUE
    ELSE LET inv_d == FDiv(1, r.direction[n])
             a0 == FMul(FSub(box.minimum[n], r.origin[n]), inv_d)
             a1 == FMul(FSub(box.maximum[n], r.origin[n]), inv_d)
             t0 == IF FLt(inv_d, 0) THEN a1 ELSE a0
             t1 == IF FLt(inv_d, 0) THEN a0 ELSE a1
             lo == IF FGt(t0, t_min) THEN t0 ELSE t_min
             hi == IF FLt(t1, t_max) THEN t1 ELSE t_max
         IN  IF FLe(hi, lo) THEN FALSE
             ELSE AabbHitFrom(box, r, n + 1, lo, hi)

AabbHit(box, r, t_min, t_max) == AabbHitFrom(box, r, 1, t_min, t_max)

\* A faulty variant: the larger corner takes the smaller z of the two boxes.
SurroundingBoxOfSmallerZ(box0, box1) ==
    Aabb(<<FMin(box0.minimum[1], box1.minimum[1]),
           FMin(box0.minimum[2], box1.minimum[2]),
           FMin(box0.minimum[3], box1.minimum[3])>>,
         <<FMax(box0.maximum[1], box1.maximum[1]),
           FMax(box0.maximum[2], box1.maximum[2]),
           FMin(box0.maximum[3], box1.maximum[3])>>)

SurroundingBox(box0, box1) ==
    Aabb(<<FMin(box0.minimum[1], box1.minimum[1]),
           FMin(box0.minimum[2], box1.minimum[2]),
           FMin(box0.minimum[3], box1.minimum[3])>>,
         <<FMax(box0.maximum[1], box1.maximum[1]),
           FMax(box0.maximum[2], box1.maximum[2]),
           FMax(box0.maximum[3], box1.maximum[3])>>)

(***************************************************************************)
(* HitRecord and the hittables (hit.rs).  A hittable is a record whose     *)
(* kind names the variant of HittableWrapper; a material is known by its   *)
(* name.  u and v are kept as the pair <<numerator, denominator>> of the   *)
(* division that computes them.                                            *)
(***************************************************************************)
HitRecord(p, normal, t, u, v, front_face, material) ==
    [p |-> p, normal |-> normal, t |-> t, u |-> u, v |-> v,
     front_face |-> front_face, mat_ptr |-> material]

\* A faulty variant: the outward normal is returned whatever the side.
create_normal_face_outward(r, outward_normal) ==
    [normal |-> outward_normal,
     front_face |-> FLt(VDot(r.direction, outward_normal), 0)]

create_normal_face(r, outward_normal) ==
    LET front_face == FLt(VDot(r.direction, outward_normal), 0)
    IN  [normal |-> IF front_face THEN outward_normal ELSE VNeg(outward_normal),
         front_face |-> front_face]

Sphere(center, radius, mat_ptr) ==
    [kind |-> "Sphere", center |-> center, radius |-> radius, mat_ptr |-> mat_ptr]

\* Sphere::get_sphere_uv for the unit normals along the axes, the only ones
\* a sphere of the model returns: u = (atan2(-z, x) + PI) / (2 PI) and
\* v = acos(-y) / PI, where -z is -0.0 for the normals with z = 0.
get_sphere_uv(p) ==
    [u |-> IF p = <<-1, 0, 0>> THEN <<0, 1>>
           ELSE IF p = <<0, 0, 1>> THEN <<1, 4>>
           ELSE IF p = <<0, 0, -1>> THEN <<3, 4>>
           ELSE <<1, 2>>,
     v |-> IF p[2] = 1 THEN <<1, 1>>
           ELSE IF p[2] = -1 THEN <<0, 1>>
           ELSE <<1, 2>>]

\* `root < t_min || t_max < root`
OutOfInterval(root, t_min, t_max) == FLt(root, t_min) \/ FLt(t_max, root)

\* The root that Sphere::hit keeps: the nearer one unless it is out of the
\* interval, then the farther one unless it is out too.
KeptRoot(root1, root2, t_min, t_max) ==
    IF ~OutOfInterval(root1, t_min, t_max) THEN Some(root1)
    ELSE IF ~OutOfInterval(root2, t_min, t_max) THEN Some(root2)
    ELSE None

\* Sphere::hit from the discriminant to the root.
RootOf(a, half_b, discriminant, t_min, t_max) ==
    IF FLt(discriminant, 0) THEN None
    ELSE KeptRoot(FDiv(FSub(FNeg(half_b), FSqrt(discriminant)), a),
                  FDiv(FAdd(FNeg(half_b), FSqrt(discriminant)), a),
                  t_min, t_max)

\* Sphere::hit from a, half_b and c to the root.
RootOfQuadratic(a, half_b, c, t_min, t_max) ==
    RootOf(a, half_b, FSub(FMul(half_b, half_b), FMul(a, c)), t_min, t_max)

\* Sphere::hit from oc to the root.
RootFrom(oc, radius, r, t_min, t_max) ==
    RootOfQuadratic(VLengthSquared(r.direction), VDot(oc, r.direction),
                    FSub(VLengthSquared(oc), FMul(radius, radius)), t_min, t_max)

\* The record of a sphere for the point p at t and the outward normal
\* there.
SphereRecord(t, p, outward_normal, uv, r, mat_ptr) ==
    LET nf == create_normal_face(r, outward_normal)
    IN  HitRecord(p, nf.normal, t, uv.u, uv.v, nf.front_face, mat_ptr)

\* u and v of the record: Sphere::hit calls get_sphere_uv, MovingSphere::hit
\* writes 0.0 for both.
UvOf(kind, outward_normal) ==
    IF kind = "Sphere" THEN get_sphere_uv(outward_normal)
    ELSE [u |-> <<0, 1>>, v |-> <<0, 1>>]

\* The tail of Sphere::hit and of MovingSphere::hit, from the root on; the
\* two differ in the centre and in u and v.
SphereHitAtPoint(t, p, center, radius, r, kind, mat_ptr) ==
    SphereRecord(t, p, VDivide(VSub(p, center), radius),
                 UvOf(kind, VDivide(VSub(p, center), radius)), r, mat_ptr)

SphereHitAtRoot(root, center, radius, r, kind, mat_ptr) ==
    IF ~root.some THEN None
    ELSE Some(SphereHitAtPoint(root.val, RayAt(r, root.val), center, radius, r,
                               kind, mat_ptr))

\* The body shared by Sphere::hit and MovingSphere::hit, for the centre the
\* sphere has for this ray.
SphereHitAt(center, radius, r, t_min, t_max, kind, mat_ptr) ==
    SphereHitAtRoot(RootFrom(VSub(r.origin, center), radius, r, t_min, t_max),
                    center, radius, r, kind, mat_ptr)

SphereHit(s, r, t_min, t_max) ==
    SphereHitAt(s.center, s.radius, r, t_min, t_max, s.kind, s.mat_ptr)

SphereBoundingBox(s) ==
    Aabb(VSub(s.center, <<s.radius, s.radius, s.radius>>),
         VAdd(s.center, <<s.radius, s.radius, s.radius>>))

MovingSphere(center0, center1, time0, time1, radius, mat_ptr) ==
    [kind |-> "MovingSphere", center0 |-> center0, center1 |-> center1,
     time0 |-> time0, time1 |-> time1, radius |-> radius, mat_ptr |-> mat_ptr]

get_center(s, time) ==
    VAdd(s.center0,
         VScale(VSub(s.center1, s.center0),
                FDiv(FSub(time, s.time0), FSub(s.time1, s.time0))))

MovingSphereHit(s, r, t_min, t_max) ==
    SphereHitAt(get_center(s, r.time), s.radius, r, t_min, t_max, s.kind, s.mat_ptr)

MovingSphereBoundingBox(s, time0, time1) ==
    LET rrr == <<s.radius, s.radius, s.radius>>
        box0 == Aabb(VSub(get_center(s, time0), rrr), VAdd(get_center(s, time0), rrr))
        box1 == Aabb(VSub(get_center(s, time1), rrr), VAdd(get_center(s, time1), rrr))
    IN  SurroundingBox(box0, box1)

\* 0.0001, the half thickness of a rectangle's box and the step past the
\* first boundary hit of a ConstantMedium, in the unit of length.
Pad == 1

XyRect(x0, x1, y0, y1, k, mat_ptr) ==
    [kind |-> "XyRect", x0 |-> x0, x1 |-> x1, y0 |-> y0, y1 |-> y1, k |-> k,
     mat_ptr |-> mat_ptr]
XzRect(x0, x1, y0, y1, k, mat_ptr) ==
    [kind |-> "XzRect", x0 |-> x0, x1 |-> x1, y0 |-> y0, y1 |-> y1, k |-> k,
     mat_ptr |-> mat_ptr]
YzRect(x0, x1, y0, y1, k, mat_ptr) ==
    [kind |-> "YzRect", x0 |-> x0, x1 |-> x1, y0 |-> y0, y1 |-> y1, k |-> k,
     mat_ptr |-> mat_ptr]

\* The body shared by XyRect::hit, XzRect::hit and YzRect::hit: the plane is
\* normal to axis n, and a and b are the axes the rectangle spans.
RectHit(q, n, a, b, outward_normal, r, t_min, t_max) ==
    LET t == FDiv(FSub(q.k, r.origin[n]), r.direction[n])
    IN  IF FLt(t, t_min) \/ FGt(t, t_max) THEN None
        ELSE LET x == FAdd(r.origin[a], FMul(t, r.direction[a]))
                 y == FAdd(r.origin[b], FMul(t, r.direction[b]))
             IN  IF FLt(x, q.x0) \/ FGt(x, q.x1) \/ FLt(y, q.y0) \/ FGt(y, q.y1)
                 THEN None
                 ELSE LET u == <<FSub(x, q.x0), FSub(q.x1, q.x0)>>
                          v == <<FSub(y, q.y0), FSub(q.y1, q.y0)>>
                          nf == create_normal_face(r, outward_normal)
                      IN  Some(HitRecord(RayAt(r, t), nf.normal, t, u, v,
                                         nf.front_face, q.mat_ptr))

XyRectHit(q, r, t_min, t_max) == RectHit(q, 3, 1, 2, <<0, 0, 1>>, r, t_min, t_max)
XzRectHit(q, r, t_min, t_max) == RectHit(q, 2, 1, 3, <<0, 1, 0>>, r, t_min, t_max)
YzRectHit(q, r, t_min, t_max) == RectHit(q, 1, 2, 3, <<1, 0, 0>>, r, t_min, t_max)

XyRectBoundingBox(q) == Aabb(<<q.x0, q.y0, q.k - Pad>>, <<q.x1, q.y1, q.k + Pad>>)
XzRectBoundingBox(q) == Aabb(<<q.x0, q.k - Pad, q.y0>>, <<q.x1, q.k + Pad, q.y1>>)
YzRectBoundingBox(q) == Aabb(<<q.k - Pad, q.x0, q.y0>>, <<q.k + Pad, q.x1, q.y1>>)

HittableList(objects) == [kind |-> "HittableList", objects |-> objects]

\* HittableList::add
ListAdd(list, object) == HittableList(Append(list.objects, object))

\* RectPrism::new: the six sides in the order they are added.
RectPrism(p0, p1, mat) ==
    [kind |-> "RectPrism", box_min |-> p0, box_max |-> p1,
     sides |-> HittableList(<<XyRect(p0[1], p1[1], p0[2], p1[2], p1[3], mat),
                              XyRect(p0[1], p1[1], p0[2], p1[2], p0[3], mat),
                              XzRect(p0[1], p1[1], p0[3], p1[3], p1[2], mat),
                              XzRect(p0[1], p1[1], p0[3], p1[3], p0[2], mat),
                              YzRect(p0[2], p1[2], p0[3], p1[3], p1[1], mat),
                              YzRect(p0[2], p1[2], p0[3], p1[3], p0[1], mat)>>)]

Translate(offset, obj) == [kind |-> "Translate", obj |-> obj, offset |-> offset]

\* ConstantMedium::from_color with -1.0 / d already computed.
ConstantMedium(boundary, neg_inv_density) ==
    [kind |-> "ConstantMedium", boundary |-> boundary,
     phase_function |-> <<"Isotropic", 0>>, neg_inv_density |-> neg_inv_density]

\* The angles of the model are the quarter turns, whose sine and cosine are
\* taken as exactly 0, 1 or -1.
Angles == {0, 90, 180, 270}
SinDeg(angle) == IF angle = 90 THEN 1 ELSE IF angle = 270 THEN -1 ELSE 0
CosDeg(angle) == IF angle = 0 THEN 1 ELSE IF angle = 180 THEN -1 ELSE 0

\* The corner (i, j, k) of bbox, rotated: the tester of RotateY::new.
RotatedCorner(bbox, sin_theta, cos_theta, i, j, k) ==
    LET x == FAdd(FMul(i, bbox.maximum[1]), FMul(1 - i, bbox.minimum[1]))
        y == FAdd(FMul(j, bbox.maximum[2]), FMul(1 - j, bbox.minimum[2]))
        z == FAdd(FMul(k, bbox.maximum[3]), FMul(1 - k, bbox.minimum[3]))
    IN  <<FAdd(FMul(cos_theta, x), FMul(sin_theta, z)),
          y,
          FAdd(FMul(FNeg(sin_theta), x), FMul(cos_theta, z))>>

\* The min and max that the loop of RotateY::new has accumulated after the
\* corners n..7, taken in the order of the loop (i outermost).
RECURSIVE RotatedCorners(_, _, _, _, _)
RotatedCorners(bbox, sin_theta, cos_theta, n, acc) ==
    IF n > 7 THEN acc
    ELSE LET tester == RotatedCorner(bbox, sin_theta, cos_theta,
                                     n \div 4, (n \div 2) % 2, n % 2)
         IN  RotatedCorners(bbox, sin_theta, cos_theta, n + 1,
                 Aabb(<<FMin(acc.minimum[1], tester[1]),
                        FMin(acc.minimum[2], tester[2]),
                        FMin(acc.minimum[3], tester[3])>>,
                      <<FMax(acc.maximum[1], tester[1]),
                        FMax(acc.maximum[2], tester[2]),
                        FMax(acc.maximum[3], tester[3])>>))

RotatedBox(bbox, sin_theta, cos_theta) ==
    RotatedCorners(bbox, sin_theta, cos_theta, 0,
                   Aabb(<<PosInf, PosInf, PosInf>>, <<-PosInf, -PosInf, -PosInf>>))

BvhNode(left, right, bbox) ==
    [kind |-> "BvhNode", left |-> left, right |-> right, bbox |-> bbox]

\* Hittable::bounding_box of every variant.
RECURSIVE BoundingBox(_, _, _)
RECURSIVE ListBoundingBoxFrom(_, _, _, _, _)

\* The loop of HittableList::bounding_box over the objects n.., with the
\* box accumulated so far.
ListBoundingBoxFrom(objects, n, temp_box, time0, time1) ==
    IF n > Len(objects) THEN Some(temp_box)
    ELSE LET other_box == BoundingBox(objects[n], time0, time1)
         IN  IF ~other_box.some THEN None
             ELSE ListBoundingBoxFrom(objects, n + 1,
                      SurroundingBox(temp_box, other_box.val), time0, time1)

\* A faulty variant: the box of the first object is returned as the box
\* of the list.
ListBoundingBoxOfFirst(list, time0, time1) ==
    IF list.objects = <<>> THEN None
    ELSE BoundingBox(list.objects[1], time0, time1)

ListBoundingBox(list, time0, time1) ==
    IF list.objects = <<>> THEN None
    ELSE LET temp_box == BoundingBox(list.objects[1], time0, time1)
         IN  IF ~temp_box.some THEN None
             ELSE ListBoundingBoxFrom(list.objects, 2, temp_box.val, time0, time1)

TranslateBoundingBox(tl, time0, time1) ==
    LET a == BoundingBox(tl.obj, time0, time1)
    IN  IF a.some THEN Some(Aabb(VAdd(a.val.minimum, tl.offset),
                                 VAdd(a.val.maximum, tl.offset)))
        ELSE None

BoundingBox(obj, time0, time1) ==
    CASE obj.kind = "Sphere" -> Some(SphereBoundingBox(obj))
      [] obj.kind = "MovingSphere" -> Some(MovingSphereBoundingBox(obj, time0, time1))
      [] obj.kind = "XyRect" -> Some(XyRectBoundingBox(obj))
      [] obj.kind = "XzRect" -> Some(XzRectBoundingBox(obj))
      [] obj.kind = "YzRect" -> Some(YzRectBoundingBox(obj))
      [] obj.kind = "HittableList" -> ListBoundingBox(obj, time0, time1)
      [] obj.kind = "RectPrism" -> Some(Aabb(obj.box_min, obj.box_max))
      [] obj.kind = "Translate" -> TranslateBoundingBox(obj, time0, time1)
      [] obj.kind = "RotateY" -> obj.bbox
      [] obj.kind = "ConstantMedium" -> BoundingBox(obj.boundary, time0, time1)
      [] obj.kind = "BvhNode" -> Some(obj.bbox)

\* RotateY::new: the min and max of the rotated corners are computed and
\* the box that is stored is bbox, the box of obj.
RotateY(angle, obj) ==
    LET sin_theta == SinDeg(angle)
        cos_theta == CosDeg(angle)
        bbox == BoundingBox(obj, 0, 1)
    IN  IF ~bbox.some
        THEN [kind |-> "RotateY", obj |-> obj, sin_theta |-> sin_theta,
              cos_theta |-> cos_theta, bbox |-> None]
        ELSE LET minmax == RotatedBox(bbox.val, sin_theta, cos_theta)
             IN  [kind |-> "RotateY", obj |-> obj, sin_theta |-> sin_theta,
                  cos_theta |-> cos_theta, bbox |-> Some(bbox.val)]

\* Hittable::hit of every variant.  ln_rand is f64::ln of the number that
\* ConstantMedium::hit draws from thread_rng.
RECURSIVE Hit(_, _, _, _, _)
RECURSIVE ListHitFrom(_, _, _, _, _, _, _)

\* The loop of HittableList::hit over the objects n.., with closest_so_far
\* and the record kept so far (None while hit_anything is false).
ListHitFrom(objects, n, r, t_min, closest_so_far, temp_rec, ln_rand) ==
    IF n > Len(objects) THEN temp_rec
    ELSE LET rec == Hit(objects[n], r, t_min, closest_so_far, ln_rand)
         IN  IF rec.some
             THEN ListHitFrom(objects, n + 1, r, t_min, rec.val.t, rec, ln_rand)
             ELSE ListHitFrom(objects, n + 1, r, t_min, closest_so_far, temp_rec, ln_rand)

ListHit(list, r, t_min, t_max, ln_rand) ==
    ListHitFrom(list.objects, 1, r, t_min, t_max, None, ln_rand)

\* A faulty variant: the point of the child's record is returned as it is.
TranslateHitChildPoint(tl, r, t_min, t_max, ln_rand) ==
    LET moved_r == Ray(VSub(r.origin, tl.offset), r.direction, r.time)
        rec == Hit(tl.obj, moved_r, t_min, t_max, ln_rand)
    IN  IF ~rec.some THEN None
        ELSE LET nf == create_normal_face(moved_r, rec.val.normal)
             IN  Some(HitRecord(rec.val.p, nf.normal, rec.val.t,
                                rec.val.u, rec.val.v, nf.front_face, rec.val.mat_ptr))

TranslateHit(tl, r, t_min, t_max, ln_rand) ==
    LET moved_r == Ray(VSub(r.origin, tl.offset), r.direction, r.time)
        rec == Hit(tl.obj, moved_r, t_min, t_max, ln_rand)
    IN  IF ~rec.some THEN None
        ELSE LET nf == create_normal_face(moved_r, rec.val.normal)
             IN  Some(HitRecord(VAdd(rec.val.p, tl.offset), nf.normal, rec.val.t,
                                rec.val.u, rec.val.v, nf.front_face, rec.val.mat_ptr))

RotateYHit(ro, r, t_min, t_max, ln_rand) ==
    LET c == ro.cos_theta
        s == ro.sin_theta
        origin == <<FSub(FMul(c, r.origin[1]), FMul(s, r.origin[3])),
                    r.origin[2],
                    FAdd(FMul(s, r.origin[1]), FMul(c, r.origin[3]))>>
        direction == <<FSub(FMul(c, r.direction[1]), FMul(s, r.direction[3])),
                       r.direction[2],
                       FAdd(FMul(s, r.direction[1]), FMul(c, r.direction[3]))>>
        rotated_r == Ray(origin, direction, r.time)
        rec == Hit(ro.obj, rotated_r, t_min, t_max, ln_rand)
    IN  IF ~rec.some THEN None
        ELSE LET p == <<FAdd(FMul(c, rec.val.p[1]), FMul(s, rec.val.p[3])),
                        rec.val.p[2],
                        FAdd(FMul(FNeg(s), rec.val.p[1]), FMul(c, rec.val.p[3]))>>
                 normal == <<FAdd(FMul(c, rec.val.normal[1]), FMul(s, rec.val.normal[3])),
                             rec.val.normal[2],
                             FAdd(FMul(FNeg(s), rec.val.normal[1]),
                                  FMul(c, rec.val.normal[3]))>>
                 nf == create_normal_face(rotated_r, normal)
             IN  Some(HitRecord(p, nf.normal, rec.val.t, rec.val.u, rec.val.v,
                                nf.front_face, rec.val.mat_ptr))

ConstantMediumHit(m, r, t_min, t_max, ln_rand) ==
    LET rec1 == Hit(m.boundary, r, -PosInf, PosInf, ln_rand)
    IN  IF ~rec1.some THEN None
        ELSE LET rec2 == Hit(m.boundary, r, FAdd(rec1.val.t, Pad), PosInf, ln_rand)
             IN  IF ~rec2.some THEN None
                 ELSE LET t1a == FMax(rec1.val.t, t_min)
                          t2 == FMin(rec2.val.t, t_max)
                          t1 == IF FLt(t1a, 0) THEN 0 ELSE t1a
                          ray_length == VLength(r.direction)
                          distance_inside_boundary == FMul(FSub(t2, t1), ray_length)
                          hit_distance == FMul(m.neg_inv_density, ln_rand)
                          t == FAdd(t1, FDiv(hit_distance, ray_length))
                      IN  IF FGe(t1a, t2) THEN None
                          ELSE IF FGt(hit_distance, distance_inside_boundary) THEN None
                          ELSE Some(HitRecord(RayAt(r, t), <<0, 0, 0>>, t,
                                              <<0, 1>>, <<0, 1>>, TRUE,
                                              m.phase_function))

BvhNodeHit(node, r, t_min, t_max, ln_rand) ==
    IF ~AabbHit(node.bbox, r, t_min, t_max) THEN None
    ELSE LET leftside_hit == Hit(node.left, r, t_min, t_max, ln_rand)
         IN  IF leftside_hit.some
             THEN LET rec == Hit(node.right, r, t_min, leftside_hit.val.t, ln_rand)
                  IN  IF rec.some THEN rec ELSE leftside_hit
             ELSE Hit(node.right, r, t_min, t_max, ln_rand)

Hit(obj, r, t_min, t_max, ln_rand) ==
    CASE obj.kind = "Sphere" -> SphereHit(obj, r, t_min, t_max)
      [] obj.kind = "MovingSphere" -> MovingSphereHit(obj, r, t_min, t_max)
      [] obj.kind = "XyRect" -> XyRectHit(obj, r, t_min, t_max)
      [] obj.kind = "XzRect" -> XzRectHit(obj, r, t_min, t_max)
      [] obj.kind = "YzRect" -> YzRectHit(obj, r, t_min, t_max)
      [] obj.kind = "HittableList" -> ListHit(obj, r, t_min, t_max, ln_rand)
      [] obj.kind = "RectPrism" -> ListHit(obj.sides, r, t_min, t_max, ln_rand)
      [] obj.kind = "Translate" -> TranslateHit(obj, r, t_min, t_max, ln_rand)
      [] obj.kind = "RotateY" -> RotateYHit(obj, r, t_min, t_max, ln_rand)
      [] obj.kind = "ConstantMedium" -> ConstantMediumHit(obj, r, t_min, t_max, ln_rand)
      [] obj.kind = "BvhNode" -> BvhNodeHit(obj, r, t_min, t_max, ln_rand)

(***************************************************************************)
(* BvhNode (bvh.rs).                                                       *)
(***************************************************************************)
\* The values of rng.gen_range(0..2).
Axes == {0, 1}

\* The axes that box_compare matches: x, y and z.
MatchedAxes == {0, 1, 2}

\* box_compare(a, b) == Ordering::Less, for objects that have a box.
BoxLess(a, b, axis) ==
    FLt(BoundingBox(a, 0, 0).val.minimum[axis + 1],
        BoundingBox(b, 0, 0).val.minimum[axis + 1])

\* Vec::sort_by(box_compare): the stable insertion sort that the standard
\* library runs on a vector of at most 20 elements.
RECURSIVE InsertTail(_, _, _)
InsertTail(sorted, x, axis) ==
    IF sorted = <<>> THEN <<x>>
    ELSE IF BoxLess(x, sorted[Len(sorted)], axis)
         THEN Append(InsertTail(SubSeq(sorted, 1, Len(sorted) - 1), x, axis),
                     sorted[Len(sorted)])
         ELSE Append(sorted, x)

RECURSIVE SortByBox(_, _, _)
SortByBox(objects, n, axis) ==
    IF n = 0 THEN <<>>
    ELSE InsertTail(SortByBox(objects, n - 1, axis), objects[n], axis)

HasBox(obj) == BoundingBox(obj, 0, 0).some

\* The <<start, end>> of the invocations of BvhNode::new that the invocation
\* on start..end leads to, itself included.
RECURSIVE Invocations(_, _)
Invocations(start, end) ==
    IF end - start <= 2 THEN {<<start, end>>}
    ELSE LET mid == start + (end - start) \div 2
         IN  {<<start, end>>} \union Invocations(start, mid) \union Invocations(mid, end)

\* The draws that the invocations on a vector of n objects can make.
PossibleDraws(n) == [Invocations(0, n) -> Axes]

Panic == [ok |-> FALSE, why |-> "panic"]
StackOverflow == [ok |-> FALSE, why |-> "stack overflow"]
Built(node) == [ok |-> TRUE, node |-> node]

\* A faulty variant: the boxes of the children are taken at time0 only.
BvhNodeOfTimeZero(left, right, time0, time1) ==
    LET left_box == BoundingBox(left, time0, time0)
        right_box == BoundingBox(right, time0, time0)
    IN  IF ~left_box.some \/ ~right_box.some THEN Panic
        ELSE Built(BvhNode(left, right, SurroundingBox(left_box.val, right_box.val)))

\* The tail of BvhNode::new, from the boxes of left and right on.
BvhNodeOf(left, right, time0, time1) ==
    LET left_box == BoundingBox(left, time0, time1)
        right_box == BoundingBox(right, time0, time1)
    IN  IF ~left_box.some \/ ~right_box.some THEN Panic
        ELSE Built(BvhNode(left, right, SurroundingBox(left_box.val, right_box.val)))

\* BvhNode::new; draws[<<start, end>>] is the axis that the invocation on
\* start..end draws.  The invocation on an empty span sorts and calls
\* itself with the same span, without end.
RECURSIVE BvhNodeNew(_, _, _, _, _, _)
BvhNodeNew(src_objects, start, end, time0, time1, draws) ==
    LET axis == draws[<<start, end>>]
        object_span == end - start
    IN  IF object_span = 1
        THEN BvhNodeOf(src_objects[start + 1], src_objects[start + 1], time0, time1)
        ELSE IF object_span = 2
        THEN IF ~HasBox(src_objects[start + 1]) \/ ~HasBox(src_objects[start + 2])
             THEN Panic
             ELSE IF BoxLess(src_objects[start + 1], src_objects[start + 2], axis)
                  THEN BvhNodeOf(src_objects[start + 1], src_objects[start + 2],
                                 time0, time1)
                  ELSE BvhNodeOf(src_objects[start + 2], src_objects[start + 1],
                                 time0, time1)
        ELSE IF Len(src_objects) >= 2
                /\ \E n \in 1..Len(src_objects) : ~HasBox(src_objects[n])
        THEN Panic
        ELSE IF object_span = 0 THEN StackOverflow
        ELSE LET objects == SortByBox(src_objects, Len(src_objects), axis)
                 mid == start + object_span \div 2
                 l == BvhNodeNew(objects, start, mid, time0, time1, draws)
                 r == BvhNodeNew(objects, mid, end, time0, time1, draws)
             IN  IF ~l.ok THEN l
                 ELSE IF ~r.ok THEN r
                 ELSE BvhNodeOf(l.node, r.node, time0, time1)

\* BvhNode::from_list
from_list(list, time0, time1, draws) ==
    BvhNodeNew(list.objects, 0, Len(list.objects), time0, time1, draws)

(***************************************************************************)
(* A scene is collected in a HittableList, a BvhNode is built from_list,   *)
(* and rays are cast at both; or a ray is cast at one hittable.   hs holds *)
(*   world         the HittableList                                        *)
(*   last          the number of the object added last                     *)
(*   bvh           the result of BvhNode::from_list                        *)
(*   obj, r, t_min, t_max   the receiver and the arguments of the last hit *)
(*   rec           what that hit returned                                  *)
(*   list_rec      what world.hit returned for the same arguments          *)
(***************************************************************************)
MaxObjects == 5
MaxCoord == 2

\* 0.001, the t_min that ray_color passes (world.rs:60).
TMinRayColor == 10

Material(i) == <<"Lambertian", i>>

\* The objects a scene is made of.  Seen along z, object i fills its own
\* cell of a diagonal, so that the order of the objects by x is the reverse
\* of their order by y; object i lies at the depth 20 i.
SceneObject(i) ==
    LET x0 == 4 * i
        y0 == 4 * (MaxObjects + 1 - i)
        z == 20 * i
    IN  IF i % 3 = 1 THEN XyRect(x0, x0 + 2, y0, y0 + 2, z, Material(i))
        ELSE IF i % 3 = 2
             THEN Translate(<<x0, y0, z>>, XyRect(0, 2, 0, 2, 0, Material(i)))
        ELSE MovingSphere(<<x0 + 1, y0 + 1, z>>, <<x0 + 1, y0 + 2, z>>, 0, 1, 1,
                          Material(i))

\* The rays of a camera that looks along z: one through every cell, and one
\* past all of them.
CameraRays ==
    {Ray(<<4 * i + 1, 4 * (MaxObjects + 1 - i) + 1, 0>>, <<0, 0, 1>>, 0) :
        i \in 0..MaxObjects}

CameraIntervals == {<<TMinRayColor, PosInf>>, <<TMinRayColor, 20 * MaxObjects - 30>>}

InitHit ==
    /\ hs = [phase |-> "build", world |-> HittableList(<<>>), last |-> 0,
             draws |-> <<>>, bvh |-> None, obj |-> None, r |-> None, t_min |-> 0, t_max |-> 0,
             rec |-> None, list_rec |-> None]
    /\ tr = Idle
    /\ pf = Idle
    /\ cfg = [unused |-> TRUE]
    /\ rpc = "none"
    /\ image_height = AsUsize(0)
    /\ screen = NoScreen
    /\ chunk_size = 0
    /\ wk = <<>>
    /\ chan = <<>>
    /\ senders = 0
    /\ sentLog = <<>>
    /\ ppm = <<>>

\* world.add(object)
AddObject ==
    /\ hs.phase = "build"
    /\ \E i \in (hs.last + 1)..MaxObjects :
         hs' = [hs EXCEPT !.world = ListAdd(hs.world, SceneObject(i)), !.last = i]
    /\ UNCHANGED <<renderVars, tr, pf>>

\* world.add of an empty HittableList, an object without a box; at most one
\* is added to a scene.
AddEmptyList ==
    /\ hs.phase = "build"
    /\ \A n \in 1..Len(hs.world.objects) : hs.world.objects[n].kind # "HittableList"
    /\ hs' = [hs EXCEPT !.world = ListAdd(hs.world, HittableList(<<>>))]
    /\ UNCHANGED <<renderVars, tr, pf>>

\* BvhNode::from_list(&world, 0.0, 1.0)
FromList ==
    /\ hs.phase = "build"
    /\ \E draws \in PossibleDraws(Len(hs.world.objects)) :
         LET res == from_list(hs.world, 0, 1, draws)
         IN  hs' = [hs EXCEPT !.phase = IF res.ok THEN "built" ELSE "aborted",
                              !.draws = draws, !.bvh = res]
    /\ UNCHANGED <<renderVars, tr, pf>>

\* bvh.hit(r, t_min, t_max), and world.hit with the same arguments.
CastRay ==
    /\ hs.phase = "built"
    /\ \E r \in CameraRays, iv \in CameraIntervals :
         hs' = [hs EXCEPT !.phase = "cast", !.obj = hs.bvh.node, !.r = r,
                          !.t_min = iv[1], !.t_max = iv[2],
                          !.rec = Hit(hs.bvh.node, r, iv[1], iv[2], -1),
                          !.list_rec = Hit(hs.world, r, iv[1], iv[2], -1)]
    /\ UNCHANGED <<renderVars, tr, pf>>

\* The hittables a single ray is cast at: one of every variant, and the
\* variants that wrap another around each of them.
Primitives ==
    {Sphere(<<0, 0, 0>>, 1, Material(1)),
     MovingSphere(<<0, 0, 0>>, <<0, MaxCoord, 0>>, 0, 1, 1, Material(2)),
     XyRect(-1, 3, -1, 1, MaxCoord, Material(3)),
     XzRect(-1, 3, -1, 1, MaxCoord, Material(4)),
     YzRect(-1, 3, -1, 1, MaxCoord, Material(5)),
     RectPrism(<<-1, -1, -1>>, <<3, 1, 1>>, Material(6))}

Offsets == {<<1, 0, 0>>, <<0, 0, MaxCoord>>}

Wrapped(objs) ==
    {Translate(offset, obj) : offset \in Offsets, obj \in objs}
    \union {RotateY(angle, obj) : angle \in Angles, obj \in objs}

Media ==
    {ConstantMedium(Sphere(<<0, 0, 0>>, 1, Material(1)), -1),
     ConstantMedium(RectPrism(<<-1, -1, -1>>, <<3, 1, 1>>, Material(6)), -1)}

Lists ==
    {HittableList(<<>>),
     HittableList(<<XyRect(-1, 3, -1, 1, MaxCoord, Material(3)),
                    Sphere(<<0, 0, 0>>, 1, Material(1)),
                    YzRect(-1, 3, -1, 1, MaxCoord, Material(5))>>),
     HittableList(<<XyRect(-1, 3, -1, 1, MaxCoord, Material(3)),
                    HittableList(<<>>)>>),
     HittableList(<<HittableList(<<>>),
                    Sphere(<<0, 0, 0>>, 1, Material(1))>>),
     HittableList(<<Sphere(<<0, 0, MaxCoord>>, 1, Material(1)),
                    XyRect(-1, 3, -1, 1, MaxCoord, Material(3)),
                    YzRect(-1, 3, MaxCoord - 1, MaxCoord + 1, MaxCoord, Material(5))>>)}

\* Nodes over two objects each: a sphere and a rectangle that a ray can
\* meet one after the other, in both orders, a rectangle in the plane of
\* which rays of the model lie, and a node over a node.
NodeOver(left, right) == BvhNodeOf(left, right, 0, 1).node

Nodes ==
    {NodeOver(Sphere(<<0, 0, 0>>, 1, Material(1)),
              XyRect(-1, 3, -1, 1, MaxCoord, Material(3))),
     NodeOver(XyRect(-1, 3, -1, 1, MaxCoord, Material(3)),
              Sphere(<<0, 0, 0>>, 1, Material(1))),
     NodeOver(Sphere(<<0, 0, MaxCoord>>, 1, Material(1)),
              XyRect(-1, 3, -1, 1, MaxCoord, Material(3))),
     NodeOver(NodeOver(YzRect(-1, 3, -1, 1, MaxCoord, Material(5)),
                       Sphere(<<0, 0, 0>>, 1, Material(1))),
              NodeOver(XzRect(-1, 3, -1, 1, MaxCoord, Material(4)),
                       XzRect(-1, 3, -1, 1, MaxCoord, Material(4))))}

\* A Translate around an object without a box.
WrappedBoxless == {Translate(<<1, 0, 0>>, HittableList(<<>>))}

Hittables ==
    Primitives \union Wrapped(Primitives) \union Media \union Lists \union Nodes
        \union WrappedBoxless

Directions == {<<1, 0, 0>>, <<-1, 0, 0>>, <<0, 1, 0>>, <<0, -1, 0>>,
               <<0, 0, 1>>, <<0, 0, -1>>}

Coords == {-MaxCoord, 0, MaxCoord}

Rays == {Ray(<<x, y, z>>, d, time) :
            x \in Coords, y \in Coords, z \in Coords, d \in Directions, time \in {0, 1}}

\* The intervals of ray_color and of ConstantMedium::hit, and a bounded one.
Intervals == {<<0, PosInf>>, <<-PosInf, PosInf>>, <<1, MaxCoord + 1>>}

\* The values of f64::ln(thread_rng().gen()) for a draw of 0.0 and for
\* draws in (0, 1).
LnRands == {-PosInf, -2, -1}

\* One hittable is constructed instead of a scene.
NewHittable ==
    /\ hs.phase = "build"
    /\ hs.world.objects = <<>>
    /\ \E obj \in Hittables : hs' = [hs EXCEPT !.phase = "made", !.obj = obj]
    /\ UNCHANGED <<renderVars, tr, pf>>

\* obj.hit(r, t_min, t_max)
HitObject ==
    /\ hs.phase = "made"
    /\ \E r \in Rays, iv \in Intervals, ln_rand \in LnRands :
         hs' = [hs EXCEPT !.phase = "probed", !.r = r,
                          !.t_min = iv[1], !.t_max = iv[2],
                          !.rec = Hit(hs.obj, r, iv[1], iv[2], ln_rand)]
    /\ UNCHANGED <<renderVars, tr, pf>>

NextHit ==
    AddObject \/ AddEmptyList \/ FromList \/ CastRay \/ NewHittable \/ HitObject

SpecHit == InitHit /\ [][NextHit]_vars

\* C8: for any ray and interval, the BvhNode built by from_list from a list
\* of objects that all have a box returns a hit exactly when
\* HittableList::hit on that list does, and then the same nearest t, the
\* same point and the same material.
C8_BvhAgreesWithList ==
    hs.phase = "cast" =>
        /\ hs.rec.some <=> hs.list_rec.some
        /\ hs.rec.some =>
              /\ hs.rec.val.t = hs.list_rec.val.t
              /\ hs.rec.val.p = hs.list_rec.val.p
              /\ hs.rec.val.mat_ptr = hs.list_rec.val.mat_ptr

InInterval(rec, t_min, t_max) ==
    rec.some => FLe(t_min, rec.val.t) /\ FLe(rec.val.t, t_max)

\* C9: the record that hit(r, t_min, t_max) returns, whatever the variant
\* of the hittable, has its t within [t_min, t_max].
C9_HitWithinInterval ==
    hs.phase \in {"cast", "probed"} =>
        /\ InInterval(hs.rec, hs.t_min, hs.t_max)
        /\ InInterval(hs.list_rec, hs.t_min, hs.t_max)

InsideBox(p, box) ==
    \A n \in 1..3 : FLe(box.minimum[n], p[n]) /\ FLe(p[n], box.maximum[n])

\* C10: the box that a RotateY reports is the per-axis min and max of the
\* eight rotated corners of the box of the object it wraps, and it
\* contains the point of every hit that the RotateY returns.
C10_RotateYBoxOfRotatedCorners ==
    (hs.phase \in {"made", "probed"} /\ hs.obj.kind = "RotateY") =>
        LET inner == BoundingBox(hs.obj.obj, 0, 1)
            bbox == BoundingBox(hs.obj, 0, 1)
        IN  /\ inner.some =>
                  bbox = Some(RotatedBox(inner.val, hs.obj.sin_theta, hs.obj.cos_theta))
            /\ (hs.phase = "probed" /\ hs.rec.some /\ bbox.some) =>
                  InsideBox(hs.rec.val.p, bbox.val)

MinOf(S) == CHOOSE m \in S : \A x \in S : m <= x
MaxOf(S) == CHOOSE m \in S : \A x \in S : m >= x

\* The union of a non-empty sequence of boxes: per axis, the least of the
\* minimums and the greatest of the maximums.
UnionOfBoxes(boxes) ==
    Aabb([n \in 1..3 |-> MinOf({boxes[i].minimum[n] : i \in 1..Len(boxes)})],
         [n \in 1..3 |-> MaxOf({boxes[i].maximum[n] : i \in 1..Len(boxes)})])

\* The box a list is to report: none when the list is empty or a child has
\* none, otherwise the union of the boxes of the children.
ListBoxExpected(list) ==
    IF list.objects = <<>>
       \/ \E n \in 1..Len(list.objects) : ~BoundingBox(list.objects[n], 0, 1).some
    THEN None
    ELSE Some(UnionOfBoxes([n \in 1..Len(list.objects) |->
                               BoundingBox(list.objects[n], 0, 1).val]))

IsProbedList == hs.phase = "probed" /\ hs.obj.kind = "HittableList"

\* C11: HittableList::bounding_box returns none when the list is empty or
\* when a child returns none, and otherwise the union of the boxes of all
\* children; every hit call on an empty list returns none.
C11_ListBoundingBox ==
    /\ BoundingBox(hs.world, 0, 1) = ListBoxExpected(hs.world)
    /\ IsProbedList => BoundingBox(hs.obj, 0, 1) = ListBoxExpected(hs.obj)
    /\ (IsProbedList /\ hs.obj.objects = <<>>) => ~hs.rec.some

\* A list of several children whose box is their union has been hit.
C11_Witness ==
    /\ IsProbedList
    /\ Len(hs.obj.objects) = 3
    /\ BoundingBox(hs.obj, 0, 1).some
    /\ BoundingBox(hs.obj, 0, 1) # BoundingBox(hs.obj.objects[1], 0, 1)
    /\ hs.rec.some

\* C18: every invocation of BvhNode::new draws its axis once, and each of
\* x, y and z is a possible outcome of the draw: for every invocation of a
\* construction and every axis, some construction of the same scene draws
\* that axis in that invocation.
C18_AxisDrawnFromXYZ ==
    hs.phase = "built" =>
        \A inv \in DOMAIN hs.draws, axis \in MatchedAxes :
            \E draws \in PossibleDraws(Len(hs.world.objects)) : draws[inv] = axis

Boxless(list) ==
    {n \in 1..Len(list.objects) : ~BoundingBox(list.objects[n], 0, 1).some}

\* C19: the construction of a BvhNode does not fail because an object has
\* no bounding box: over a scene that holds such an object from_list
\* returns a node.
C19_BoxlessObjectDoesNotAbort ==
    (hs.phase \in {"built", "aborted"} /\ Boxless(hs.world) # {}) => hs.bvh.ok

\* Every node below (and including) node stores the surrounding box of the
\* boxes its children report for the time window 0..1 of the construction.
RECURSIVE BoxesStored(_)
BoxesStored(node) ==
    node.kind = "BvhNode" =>
        /\ node.bbox = SurroundingBox(BoundingBox(node.left, 0, 1).val,
                                      BoundingBox(node.right, 0, 1).val)
        /\ BoxesStored(node.left)
        /\ BoxesStored(node.right)

RECURSIVE Leaves(_)
Leaves(node) ==
    IF node.kind = "BvhNode" THEN Leaves(node.left) \union Leaves(node.right)
    ELSE {node}

Contains(outer, inner) ==
    \A n \in 1..3 :
        /\ outer.minimum[n] <= inner.minimum[n]
        /\ inner.maximum[n] <= outer.maximum[n]

\* C20: every BvhNode of a constructed tree stores the surrounding box of
\* the boxes of its left and right children for the time window of the
\* construction, and the box of the root contains the box of every leaf of
\* the tree.
C20_NodeBoxSurroundsChildren ==
    (hs.phase \in {"built", "cast"} /\ hs.bvh.ok) =>
        /\ BoxesStored(hs.bvh.node)
        /\ \A leaf \in Leaves(hs.bvh.node) :
               Contains(hs.bvh.node.bbox, BoundingBox(leaf, 0, 1).val)

\* A tree of two levels with a moving sphere among its leaves, whose box
\* over the time window is larger than its box at time 0.
C20_Witness ==
    /\ hs.phase = "built"
    /\ hs.bvh.ok
    /\ hs.bvh.node.left.kind = "BvhNode"
    /\ Cardinality(Leaves(hs.bvh.node)) >= 3
    /\ \E leaf \in Leaves(hs.bvh.node) :
          /\ leaf.kind = "MovingSphere"
          /\ BoundingBox(leaf, 0, 1) # BoundingBox(leaf, 0, 0)
    /\ \A leaf \in Leaves(hs.bvh.node) :
          BoundingBox(leaf, 0, 1).val # hs.bvh.node.bbox

IsProbedNode == hs.phase \in {"probed", "cast"} /\ hs.obj.kind = "BvhNode"

\* The hit with the smaller t of two optional hits.
CloserOf(rec, l, rr) ==
    /\ rec.some <=> (l.some \/ rr.some)
    /\ rec.some =>
          /\ rec \in {l, rr}
          /\ l.some => FLe(rec.val.t, l.val.t)
          /\ rr.some => FLe(rec.val.t, rr.val.t)

\* The right child's hit, queried up to the left child's t when the left
\* child hits.
RightAfter(node, r, t_min, t_max, l) ==
    Hit(node.right, r, t_min, IF l.some THEN l.val.t ELSE t_max, -1)

NodeHitAsStated(node, r, t_min, t_max, rec, l) ==
    IF ~AabbHit(node.bbox, r, t_min, t_max) THEN ~rec.some
    ELSE CloserOf(rec, l, RightAfter(node, r, t_min, t_max, l))

\* C21: BvhNode::hit returns none when the ray misses the box of the node on
\* [t_min, t_max]; otherwise it returns the hit with the smaller t among the
\* hit of the left child on [t_min, t_max] and the hit of the right child
\* (on [t_min, left.t] when the left child hits, on [t_min, t_max] when it
\* does not), and none only if both children miss.
C21_NodeReturnsCloserChildHit ==
    IsProbedNode =>
        NodeHitAsStated(hs.obj, hs.r, hs.t_min, hs.t_max, hs.rec,
                        Hit(hs.obj.left, hs.r, hs.t_min, hs.t_max, -1))

\* The hits of the children of a list, each queried on its own on
\* [t_min, t_max].
ChildHits(list, r, t_min, t_max) ==
    {Hit(list.objects[n], r, t_min, t_max, -1) : n \in 1..Len(list.objects)}
        \ {None}

ClosestOf(rec, hits) ==
    /\ rec.some <=> hits # {}
    /\ rec.some =>
          /\ rec \in hits
          /\ \A h \in hits : FLe(rec.val.t, h.val.t)

\* C22: HittableList::hit returns the record with the minimum t among the
\* children that hit within [t_min, t_max], and none if no child hits.
C22_ListReturnsClosestChildHit ==
    IsProbedList => ClosestOf(hs.rec, ChildHits(hs.obj, hs.r, hs.t_min, hs.t_max))

IsProbedTranslate == hs.phase = "probed" /\ hs.obj.kind = "Translate"

\* The record of the child for the ray moved back by the offset.
ChildOfTranslateHit(tl, r, t_min, t_max) ==
    Hit(tl.obj, Ray(VSub(r.origin, tl.offset), r.direction, r.time), t_min, t_max, -1)

TranslateRecordAsStated(tl, rec, child_rec) ==
    /\ rec.some <=> child_rec.some
    /\ rec.some =>
          /\ rec.val.t = child_rec.val.t
          /\ rec.val.u = child_rec.val.u
          /\ rec.val.v = child_rec.val.v
          /\ rec.val.mat_ptr = child_rec.val.mat_ptr
          /\ rec.val.p = VAdd(child_rec.val.p, tl.offset)

TranslateBoxAsStated(tl, box, child_box) ==
    /\ box.some <=> child_box.some
    /\ box.some =>
          /\ box.val.minimum = VAdd(child_box.val.minimum, tl.offset)
          /\ box.val.maximum = VAdd(child_box.val.maximum, tl.offset)

ObjectsOf(list) == {list.objects[n] : n \in 1..Len(list.objects)}

\* C25: the leaves of the tree that BvhNode::from_list builds over a
\* non-empty list are the objects of the list: none is dropped.
C25_LeavesAreTheObjects ==
    (hs.phase = "built" /\ hs.world.objects # <<>>) =>
        Leaves(hs.bvh.node) = ObjectsOf(hs.world)

\* C26: BvhNode::from_list returns a node, after finitely many invocations
\* of BvhNode::new, for every list whose objects all have a box, the empty
\* list included.
C26_FromListReturns ==
    (hs.phase \in {"built", "aborted"} /\ Boxless(hs.world) = {}) =>
        /\ hs.bvh.ok
        /\ hs.bvh.node.kind = "BvhNode"

\* The record of the child of a RotateY for the ray turned into its frame.
ChildOfRotateYHit(ro, r, t_min, t_max) ==
    Hit(ro.obj,
        Ray(<<FSub(FMul(ro.cos_theta, r.origin[1]), FMul(ro.sin_theta, r.origin[3])),
              r.origin[2],
              FAdd(FMul(ro.sin_theta, r.origin[1]), FMul(ro.cos_theta, r.origin[3]))>>,
            <<FSub(FMul(ro.cos_theta, r.direction[1]), FMul(ro.sin_theta, r.direction[3])),
              r.direction[2],
              FAdd(FMul(ro.sin_theta, r.direction[1]), FMul(ro.cos_theta, r.direction[3]))>>,
            r.time),
        t_min, t_max, -1)

SameFace(rec, child_rec) ==
    (rec.some /\ child_rec.some) => rec.val.front_face = child_rec.val.front_face

\* C27: a hit returned through a Translate or a RotateY carries the
\* front_face of the record that the wrapped object returned for the
\* transformed ray.
C27_DecoratorKeepsFrontFace ==
    /\ IsProbedTranslate =>
           SameFace(hs.rec, ChildOfTranslateHit(hs.obj, hs.r, hs.t_min, hs.t_max))
    /\ (hs.phase = "probed" /\ hs.obj.kind = "RotateY") =>
           SameFace(hs.rec, ChildOfRotateYHit(hs.obj, hs.r, hs.t_min, hs.t_max))

(***************************************************************************)
(* Textures (texture.rs) and materials (hit.rs).  Colours, the fuzz of a   *)
(* metal and the vectors of a scatter are counted in quarters: One is the  *)
(* f64 1.0.                                                                *)
(***************************************************************************)
One == 4

\* The product and the dot product of values counted in quarters.
QMul(a, b) == FDiv(FMul(a, b), One)
QDot(a, b) == FDiv(VDot(a, b), One)
QScale(a, k) == <<QMul(a[1], k), QMul(a[2], k), QMul(a[3], k)>>

\* Vec3::unit: the vector over its length.
Unit(a) == VDivide(VScale(a, One), VLength(a))

\* Vec3::near_zero: every component below 1e-8 in absolute value.
NearZero(a) == a = <<0, 0, 0>>

\* Vec3::reflect: v - 2 (v . n) n.
Reflect(v, normal) == VSub(v, QScale(normal, FMul(2, QDot(v, normal))))

SolidColor(color_value) == [kind |-> "SolidColor", color_value |-> color_value]
Checker(even, odd) == [kind |-> "Checker", even |-> even, odd |-> odd]

\* The sign of sin(10 x) for the coordinates 0, 0.25 and 0.5 and their
\* negatives: sin(2.5) > 0 and sin(5) < 0.
SinTenSign(x) ==
    IF x = 0 THEN 0
    ELSE IF x = 1 THEN 1
    ELSE IF x = 2 THEN -1
    ELSE IF x = -1 THEN -1
    ELSE 1

\* Texture::value.
RECURSIVE TextureValue(_, _, _, _)
TextureValue(tex, u, v, p) ==
    IF tex.kind = "SolidColor" THEN tex.color_value
    ELSE IF SinTenSign(p[1]) * SinTenSign(p[2]) * SinTenSign(p[3]) < 0
         THEN TextureValue(tex.odd, u, v, p)
    ELSE TextureValue(tex.even, u, v, p)

Isotropic(albedo) == [kind |-> "Isotropic", albedo |-> albedo]
Lambertian(albedo) == [kind |-> "Lambertian", albedo |-> albedo]
Dielectric(ir) == [kind |-> "Dielectric", ir |-> ir]
DiffuseLight(emit) == [kind |-> "DiffuseLight", emit |-> emit]

\* Metal::new.
MetalNew(albedo, fuzz) ==
    [kind |-> "Metal", albedo |-> albedo,
     fuzz |-> IF FLt(fuzz, One) THEN fuzz ELSE One]

\* A faulty variant: every material with a texture emits its value.
EmittedOfTexture(mat, u, v, p) ==
    IF mat.kind = "DiffuseLight" THEN TextureValue(mat.emit, u, v, p)
    ELSE IF mat.kind \in {"Lambertian", "Isotropic"}
         THEN TextureValue(mat.albedo, u, v, p)
    ELSE <<0, 0, 0>>

\* Material::emitted: the default of the trait, overridden by DiffuseLight.
Emitted(mat, u, v, p) ==
    IF mat.kind = "DiffuseLight" THEN TextureValue(mat.emit, u, v, p)
    ELSE <<0, 0, 0>>

Scattered(origin, direction, time, attenuation) ==
    Some([scattered |-> Ray(origin, direction, time), attenuation |-> attenuation])

\* Lambertian::scatter; rnd is the vector of random_unit_vector.
LambertianScatterTo(mat, r_in, rec, scatter_direction) ==
    Scattered(rec.p,
              IF NearZero(scatter_direction) THEN rec.normal ELSE scatter_direction,
              r_in.time, TextureValue(mat.albedo, rec.u, rec.v, rec.p))

LambertianScatter(mat, r_in, rec, rnd) ==
    LambertianScatterTo(mat, r_in, rec, VAdd(rec.normal, rnd))

\* Metal::scatter; rnd is the vector of random_in_unit_sphere.
MetalScatterTo(mat, r_in, rec, direction) ==
    IF FGt(QDot(direction, rec.normal), 0)
    THEN Scattered(rec.p, direction, r_in.time, mat.albedo)
    ELSE None

MetalScatter(mat, r_in, rec, rnd) ==
    MetalScatterTo(mat, r_in, rec,
                   VAdd(Reflect(Unit(r_in.direction), rec.normal),
                        QScale(rnd, mat.fuzz)))

\* Dielectric::scatter for a ray along the normal: cos_theta is 1, so the
\* ray can refract, and it is reflected when the reflectance exceeds the
\* random number drawn (reflects); the refracted ray goes straight on.
DielectricScatter(mat, r_in, rec, reflects) ==
    Scattered(rec.p,
              IF reflects THEN Reflect(Unit(r_in.direction), rec.normal)
              ELSE VNeg(rec.normal),
              r_in.time, <<One, One, One>>)

\* Isotropic::scatter; rnd is the vector of random_in_unit_sphere.
IsotropicScatter(mat, r_in, rec, rnd) ==
    Scattered(rec.p, rnd, r_in.time, TextureValue(mat.albedo, rec.u, rec.v, rec.p))

\* MaterialWrapper::scatter.
Scatter(mat, r_in, rec, rnd, reflects) ==
    IF mat.kind = "Isotropic" THEN IsotropicScatter(mat, r_in, rec, rnd)
    ELSE IF mat.kind = "Lambertian" THEN LambertianScatter(mat, r_in, rec, Unit(rnd))
    ELSE IF mat.kind = "Metal" THEN MetalScatter(mat, r_in, rec, rnd)
    ELSE IF mat.kind = "Dielectric" THEN DielectricScatter(mat, r_in, rec, reflects)
    ELSE None

(***************************************************************************)
(* Vec3Iter (vec3.rs): the iterator over the components of a Vec3.         *)
(***************************************************************************)

\* Vec3::iter.
Vec3IterOf(v) == [cur |-> 0, vec3 |-> v]

\* A faulty variant: the iterator starts again after z.
Vec3IterNextCycling(it) ==
    [it |-> [it EXCEPT !.cur = it.cur + 1],
     item |-> Some(it.vec3[(it.cur % 3) + 1])]

\* Vec3Iter::next: the iterator after the call and the item returned.
Vec3IterNext(it) ==
    [it |-> [it EXCEPT !.cur = it.cur + 1],
     item |-> IF it.cur = 0 THEN Some(it.vec3[1])
              ELSE IF it.cur = 1 THEN Some(it.vec3[2])
              ELSE IF it.cur = 2 THEN Some(it.vec3[3])
              ELSE None]

\* Iterator::zip and the next of the zipped iterator: b is asked only when
\* a has returned an item.
Zip(a, b) == [a |-> a, b |-> b]

ZipNextOf(z, x) ==
    IF ~x.item.some THEN [it |-> Zip(x.it, z.b), item |-> None]
    ELSE [it |-> Zip(x.it, Vec3IterNext(z.b).it),
          item |-> IF Vec3IterNext(z.b).item.some
                   THEN Some(<<x.item.val, Vec3IterNext(z.b).item.val>>)
                   ELSE None]

ZipNext(z) == ZipNextOf(z, Vec3IterNext(z.a))

(***************************************************************************)
(* Functions called on their own.  One behaviour calls one function, with  *)
(* arguments drawn from small sets, and keeps the arguments and the        *)
(* results in pf; an iterator is then advanced call by call.               *)
(***************************************************************************)

InitCalls ==
    /\ pf = Idle
    /\ tr = Idle
    /\ hs = Idle
    /\ cfg = [unused |-> TRUE]
    /\ rpc = "none"
    /\ image_height = AsUsize(0)
    /\ screen = NoScreen
    /\ chunk_size = 0
    /\ wk = <<>>
    /\ chan = <<>>
    /\ senders = 0
    /\ sentLog = <<>>
    /\ ppm = <<>>

\* Corners with finite and infinite coordinates; a box is any pair of them,
\* so that boxes that overlap, nest, lie apart or have their corners the
\* wrong way round all occur.
Corners == {<<x, y, z>> : x \in {-1, 1}, y \in {0, PosInf}, z \in {-PosInf, 2}}

Boxes == {Aabb(p, q) : p \in Corners, q \in Corners}

\* Aabb::surrounding_box(box0, box1), with the same call on the boxes in the
\* other order and on box0 twice.
SurroundingBoxCall ==
    /\ pf = Idle
    /\ \E box0 \in Boxes, box1 \in Boxes :
           pf' = [op |-> "surrounding_box", box0 |-> box0, box1 |-> box1,
                  out |-> SurroundingBox(box0, box1),
                  swapped |-> SurroundingBox(box1, box0),
                  same |-> SurroundingBox(box0, box0)]
    /\ UNCHANGED <<renderVars, tr, hs>>

Colors == {<<0, 0, 0>>, <<One, 2, 0>>, <<3, 3, 3>>}

\* The fuzz passed to Metal::new: below 0, within [0, 1], above 1, infinite
\* and NaN.
Fuzzes == {-PosInf, -2, 0, 2, One, One + 2, PosInf, NaN}

\* Metal::new(albedo, fuzz).
MetalNewCall ==
    /\ pf = Idle
    /\ \E albedo \in Colors, fuzz \in Fuzzes :
           pf' = [op |-> "Metal::new", fuzz |-> fuzz, mat |-> MetalNew(albedo, fuzz)]
    /\ UNCHANGED <<renderVars, tr, hs>>

Textures ==
    {SolidColor(c) : c \in Colors}
        \cup {Checker(SolidColor(<<One, 2, 0>>), SolidColor(<<3, 3, 3>>))}

Materials ==
    {Isotropic(t) : t \in Textures} \cup {Lambertian(t) : t \in Textures}
        \cup {DiffuseLight(t) : t \in Textures}
        \cup {MetalNew(c, fuzz) : c \in Colors, fuzz \in {0, 2, -PosInf}}
        \cup {Dielectric(ir) : ir \in {One, One + 2}}

\* Points on which sin(10 x) sin(10 y) sin(10 z) is positive, negative and 0.
TexturePoints == {<<x, 1, z>> : x \in {0, 1, 2}, z \in {-1, 1}}

\* Material::emitted(u, v, p) of a material.
EmittedCall ==
    /\ pf = Idle
    /\ \E mat \in Materials, u \in {0, One}, v \in {0, One}, p \in TexturePoints :
           pf' = [op |-> "emitted", mat |-> mat, u |-> u, v |-> v, p |-> p,
                  out |-> Emitted(mat, u, v, p)]
    /\ UNCHANGED <<renderVars, tr, hs>>

\* A ray that meets a surface head on at p, and the record of the hit.
HeadOn(p, normal) ==
    [r_in |-> Ray(VAdd(p, VScale(normal, 2)), VScale(normal, -2), 0),
     rec |-> HitRecord(p, normal, One, 0, One, TRUE, 0)]

Incidences ==
    {HeadOn(p, normal) : p \in TexturePoints,
                         normal \in {<<0, 0, One>>, <<-One, 0, 0>>}}

\* The vectors drawn by random_in_unit_sphere.
RandomVectors == {<<0, 0, 0>>, <<0, 0, 2>>, <<0, 0, -2>>, <<2, 0, 0>>}

\* Material::scatter(r_in, rec) of a material.
ScatterCall ==
    /\ pf = Idle
    /\ \E mat \in Materials, i \in Incidences, rnd \in RandomVectors,
          reflects \in BOOLEAN :
           pf' = [op |-> "scatter", mat |-> mat, r_in |-> i.r_in, rec |-> i.rec,
                  out |-> Scatter(mat, i.r_in, i.rec, rnd, reflects)]
    /\ UNCHANGED <<renderVars, tr, hs>>

\* Directions and normals along the axes, the diagonals and in between, and
\* with an infinite and a NaN component.
FaceVectors ==
    {<<x, y, z>> : x \in {-1, 0, 1}, y \in {-1, 0, 1}, z \in {-1, 0, 1}}
        \cup {<<PosInf, 0, 0>>, <<NaN, 1, 0>>}

\* HitRecord::create_normal_face(r, outward_normal)
CreateNormalFaceCall ==
    /\ pf = Idle
    /\ \E direction \in FaceVectors, outward_normal \in FaceVectors :
           pf' = [op |-> "create_normal_face", direction |-> direction,
                  outward_normal |-> outward_normal,
                  out |-> create_normal_face(Ray(<<0, 0, 0>>, direction, 0),
                                             outward_normal)]
    /\ UNCHANGED <<renderVars, tr, hs>>

\* Screen::new(width, height) followed by screen.update(i, j, color)
ScreenUpdateCall ==
    /\ pf = Idle
    /\ \E width \in 1..MaxWidth, height \in 1..MaxWidth,
          i \in 0..(MaxWidth + 1), j \in 0..(MaxWidth + 1),
          color \in PixelColors :
           LET s == ScreenNew(width, AsUsize(height))
           IN  pf' = [op |-> "update", before |-> s, i |-> i, j |-> j,
                      color |-> color,
                      panicked |-> ~UpdateInRange(s, i, j),
                      after |-> IF UpdateInRange(s, i, j)
                                THEN ScreenUpdate(s, i, j, color) ELSE s]
    /\ UNCHANGED <<renderVars, tr, hs>>

MaxNextCalls == 6

Vec3Values == {<<5, 6, 7>>, <<7, 8, 9>>, <<0, 0, 0>>, <<NaN, PosInf, -1>>}

\* v.iter()
IterCall ==
    /\ pf = Idle
    /\ \E v \in Vec3Values :
           pf' = [op |-> "iter", it |-> Vec3IterOf(v), vec3 |-> v, yielded |-> <<>>]
    /\ UNCHANGED <<renderVars, tr, hs>>

\* k.next() on the iterator, the item kept in the order of the calls.
IterNextCall ==
    /\ pf # Idle
    /\ pf.op = "iter"
    /\ Len(pf.yielded) < MaxNextCalls
    /\ pf' = [pf EXCEPT !.it = Vec3IterNext(pf.it).it,
                         !.yielded = Append(@, Vec3IterNext(pf.it).item)]
    /\ UNCHANGED <<renderVars, tr, hs>>

\* v1.iter().zip(v2.iter())
ZipCall ==
    /\ pf = Idle
    /\ \E v1 \in Vec3Values, v2 \in Vec3Values :
           pf' = [op |-> "zip", it |-> Zip(Vec3IterOf(v1), Vec3IterOf(v2)),
                  v1 |-> v1, v2 |-> v2, yielded |-> <<>>]
    /\ UNCHANGED <<renderVars, tr, hs>>

\* k.next() on the zipped iterator.
ZipNextCall ==
    /\ pf # Idle
    /\ pf.op = "zip"
    /\ Len(pf.yielded) < MaxNextCalls
    /\ pf' = [pf EXCEPT !.it = ZipNext(pf.it).it,
                         !.yielded = Append(@, ZipNext(pf.it).item)]
    /\ UNCHANGED <<renderVars, tr, hs>>

NextCalls ==
    \/ ScreenUpdateCall
    \/ CreateNormalFaceCall
    \/ IterCall
    \/ IterNextCall
    \/ ZipCall
    \/ ZipNextCall
    \/ SurroundingBoxCall
    \/ MetalNewCall
    \/ EmittedCall
    \/ ScatterCall

SpecCalls == InitCalls /\ [][NextCalls]_vars

IsSurroundingBoxCall == pf # Idle /\ pf.op = "surrounding_box"

\* C12: the box returned by surrounding_box(A, B) has a minimum that is, on
\* every axis, at most both minimums and one of them, and a maximum that is
\* at least both maximums and one of them (so it is the tightest such box);
\* the call is commutative, and surrounding_box(A, A) is A.
C12_SurroundingBoxTightest ==
    IsSurroundingBoxCall =>
        /\ \A n \in 1..3 :
               /\ pf.out.minimum[n] <= pf.box0.minimum[n]
               /\ pf.out.minimum[n] <= pf.box1.minimum[n]
               /\ pf.out.minimum[n] \in {pf.box0.minimum[n], pf.box1.minimum[n]}
               /\ pf.out.maximum[n] >= pf.box0.maximum[n]
               /\ pf.out.maximum[n] >= pf.box1.maximum[n]
               /\ pf.out.maximum[n] \in {pf.box0.maximum[n], pf.box1.maximum[n]}
        /\ pf.swapped = pf.out
        /\ pf.same = pf.box0

\* Two boxes neither of which contains the other: the result is a third box.
C12_Witness ==
    /\ IsSurroundingBoxCall
    /\ pf.out # pf.box0
    /\ pf.out # pf.box1
    /\ pf.out.maximum[3] # pf.out.minimum[3]

IsMetalNewCall == pf # Idle /\ pf.op = "Metal::new"

\* C13: the fuzz stored by Metal::new lies in [0, 1] for every input: an
\* input above 1 is stored as 1 and an input below 0 is stored as 0.
C13_FuzzClamped ==
    IsMetalNewCall =>
        /\ FLe(0, pf.mat.fuzz)
        /\ FLe(pf.mat.fuzz, One)
        /\ FGt(pf.fuzz, One) => pf.mat.fuzz = One
        /\ FLt(pf.fuzz, 0) => pf.mat.fuzz = 0

IsEmittedCall == pf # Idle /\ pf.op = "emitted"
IsScatterCall == pf # Idle /\ pf.op = "scatter"

\* C14: scatter of a DiffuseLight returns none for every ray and record, and
\* its emitted returns the value of its texture at (u, v, p); emitted of every
\* other material (Lambertian, Metal, Dielectric, Isotropic) is the zero
\* colour.
C14_OnlyDiffuseLightEmits ==
    /\ (IsScatterCall /\ pf.mat.kind = "DiffuseLight") => pf.out = None
    /\ (IsEmittedCall /\ pf.mat.kind = "DiffuseLight") =>
           pf.out = TextureValue(pf.mat.emit, pf.u, pf.v, pf.p)
    /\ (IsEmittedCall /\ pf.mat.kind # "DiffuseLight") => pf.out = <<0, 0, 0>>

\* A light with a checker texture that emits the colour of its odd cells.
C14_Witness ==
    /\ IsEmittedCall
    /\ pf.mat.kind = "DiffuseLight"
    /\ pf.mat.emit.kind = "Checker"
    /\ pf.out = <<3, 3, 3>>

IsIter == pf # Idle /\ pf.op = "iter"
IsZip == pf # Idle /\ pf.op = "zip"

\* C15: the calls of next on v.iter() return x, y and z in this order, once
\* each, and none from the fourth call on; on two zipped iterators they
\* return the three pairs of components and then none.
C15_IterYieldsXYZ ==
    /\ IsIter =>
           \A k \in 1..Len(pf.yielded) :
               pf.yielded[k] = IF k <= 3 THEN Some(pf.vec3[k]) ELSE None
    /\ IsZip =>
           \A k \in 1..Len(pf.yielded) :
               pf.yielded[k] = IF k <= 3 THEN Some(<<pf.v1[k], pf.v2[k]>>) ELSE None

\* Two different vectors zipped, next called past the end more than once.
C15_Witness ==
    /\ IsZip
    /\ pf.v1 = <<5, 6, 7>>
    /\ pf.v2 = <<7, 8, 9>>
    /\ Len(pf.yielded) >= 5
    /\ pf.yielded[3] = Some(<<7, 9>>)
    /\ pf.it.a.cur >= 5

IsCreateNormalFaceCall == pf # Idle /\ pf.op = "create_normal_face"

IsScreenUpdateCall == pf # Idle /\ pf.op = "update"

\* The pixel of row `row` and column `col` of a Screen.
PixelOf(s, row, col) == PixelAt(s, row * s.width + col)

\* C30: a call update(i, j, color) returns normally only with i below the
\* height and j below the width, and then pixel (i, j) has the color and
\* every other pixel is as before; with a row or a column out of range the
\* call panics and writes nothing.
C30_UpdateWithinBounds ==
    IsScreenUpdateCall =>
        IF pf.i < pf.before.height /\ pf.j < pf.before.width
        THEN /\ ~pf.panicked
             /\ \A row \in 0..(pf.before.height - 1),
                   col \in 0..(pf.before.width - 1) :
                    PixelOf(pf.after, row, col) =
                        IF row = pf.i /\ col = pf.j THEN pf.color
                        ELSE PixelOf(pf.before, row, col)
        ELSE /\ pf.panicked
             /\ pf.after = pf.before

====
